---- MODULE Spec2Model ----
(***************************************************************************)
(* State-machine model of the conversational restaurant-ordering servers:  *)
(*   "mem"    the in-memory, text-embedded server   (src/server/index.js)   *)
(*   "cli"    the command-line, text-embedded demo  (src/unnamed/part_000)  *)
(*   "user"   the Redis server keyed by userId      (src/server/server.js   *)
(*            lines 1-192)                                                  *)
(*   "sess"   the Redis server keyed by sessionId   (src/server/server.js   *)
(*            lines 194-483)                                                *)
(*   "app"    the browser client's store          (src/client/src/store/    *)
(*            useOrderStore.js) with the userId server that answers it      *)
(* A behaviour runs one variant, chosen in the initial state.  Two further  *)
(* variants study a function on its own, with arguments drawn in the        *)
(* initial state: "find" (the two findMenuItem) and "turn" (what a chat     *)
(* turn of index.js does with the model's text).                            *)
(*                                                                          *)
(* Specifications: SpecMem, SpecCli, SpecUser, SpecSess, SpecFind, SpecTurn *)
(* run one variant; SpecText (mem or cli), SpecRedis (user or sess) and     *)
(* SpecServers (mem, user or sess) run one of several; SpecTtl is SpecRedis *)
(* with the lifetime of the keys counted down; SpecOverlap is the in-memory *)
(* server with overlapping chat turns of an open session; SpecApp and       *)
(* SpecApp2 run the client store in one and in two browsers.                *)
(*                                                                          *)
(* Text is modelled as a sequence of tokens (words, the directive keywords, *)
(* "|QUANTITY:" and digit strings); whitespace between tokens is implicit.  *)
(* JavaScript objects that are shared by reference (the items array of an   *)
(* order and the line objects in it) live in an explicit heap.  chatHistory *)
(* is not modelled: no order, session or response field is computed from    *)
(* it.  The in-memory server is followed for one session of its Map: a      *)
(* handler reads and writes only the session object of the id it is given   *)
(* and the completed order it creates.  Likewise the Redis servers are      *)
(* followed for one user and one created session: a handler reads and       *)
(* writes only the key of the id it is given.                               *)
(***************************************************************************)
EXTENDS Integers, Sequences, FiniteSets, Bags, TLC

\* ------------------------------------------------------------------ bounds
\* Orders the command-line demo may complete (each takes a fresh id).
MaxOrders == 2
\* Requests of a Redis-backed server that may be in flight at the same time.
MaxReq == 2
\* Largest quantity a line may reach through an ORDER_ADD (guard only).
MaxQty == 2
\* Chat turns of one session that may await the model at the same time.
MaxInflight == 1

\* ------------------------------------------------------------ menu catalog
\* MENU in catalog iteration order (mains, drinks, sides); name as tokens.
MENU ==
    << [id |-> "jollof_rice",      name |-> <<"Jollof", "Rice">>,                 price |-> 2500],
       [id |-> "fried_rice",       name |-> <<"Fried", "Rice">>,                  price |-> 2800],
       [id |-> "chicken_shawarma", name |-> <<"Chicken", "Shawarma">>,            price |-> 2800],
       [id |-> "pounded_yam",      name |-> <<"Pounded", "Yam", "with", "Egusi">>, price |-> 3500],
       [id |-> "suya",             name |-> <<"Suya", "Platter">>,                price |-> 2000],
       [id |-> "beef_burger",      name |-> <<"Beef", "Burger">>,                 price |-> 2000],
       [id |-> "zobo",             name |-> <<"Zobo", "Drink">>,                  price |-> 800],
       [id |-> "chapman",          name |-> <<"Chapman">>,                        price |-> 1200],
       [id |-> "water",            name |-> <<"Bottled", "Water">>,               price |-> 300],
       [id |-> "5_alive",          name |-> <<"5", "Alive">>,                     price |-> 1500],
       [id |-> "soft_drink",       name |-> <<"Soft", "Drink">>,                  price |-> 500],
       [id |-> "plantain",         name |-> <<"Fried", "Plantain">>,              price |-> 800],
       [id |-> "moi_moi",          name |-> <<"Moi", "Moi">>,                     price |-> 1000],
       [id |-> "salad",            name |-> <<"Garden", "Salad">>,                price |-> 1200] >>

\* --------------------------------------------------------------- text model
\* String.prototype.toLowerCase on one token.
LowerTable ==
    [t \in {"Jollof", "Rice", "Fried", "Chicken", "Shawarma", "Pounded", "Yam",
            "Egusi", "Suya", "Platter", "Beef", "Burger", "Zobo", "Drink",
            "Chapman", "Bottled", "Water", "Alive", "Soft", "Plantain", "Moi",
            "Garden", "Salad", "Pizza", "Certainly", "Alright", "Sure",
            "ORDER_ADD:", "ORDER_REMOVE:", "ORDER_UPDATE:", "|QUANTITY:"} |->
        CASE t = "Jollof" -> "jollof"     [] t = "Rice" -> "rice"
          [] t = "Fried" -> "fried"       [] t = "Chicken" -> "chicken"
          [] t = "Shawarma" -> "shawarma" [] t = "Pounded" -> "pounded"
          [] t = "Yam" -> "yam"           [] t = "Egusi" -> "egusi"
          [] t = "Suya" -> "suya"         [] t = "Platter" -> "platter"
          [] t = "Beef" -> "beef"         [] t = "Burger" -> "burger"
          [] t = "Zobo" -> "zobo"         [] t = "Drink" -> "drink"
          [] t = "Chapman" -> "chapman"   [] t = "Bottled" -> "bottled"
          [] t = "Water" -> "water"       [] t = "Alive" -> "alive"
          [] t = "Soft" -> "soft"         [] t = "Plantain" -> "plantain"
          [] t = "Moi" -> "moi"           [] t = "Garden" -> "garden"
          [] t = "Salad" -> "salad"       [] t = "Pizza" -> "pizza"
          [] t = "Certainly" -> "certainly" [] t = "Alright" -> "alright"
          [] t = "Sure" -> "sure"
          [] t = "ORDER_ADD:" -> "order_add:"
          [] t = "ORDER_REMOVE:" -> "order_remove:"
          [] t = "ORDER_UPDATE:" -> "order_update:"
          [] t = "|QUANTITY:" -> "|quantity:"]

toLowerCaseTok(t) == IF t \in DOMAIN LowerTable THEN LowerTable[t] ELSE t

toLowerCase(s) == [i \in 1..Len(s) |-> toLowerCaseTok(s[i])]

\* parseInt(str, 10) on a token that matched \d+.
DigitTable == [t \in {"0", "1", "2", "3", "4", "5"} |->
    CASE t = "0" -> 0 [] t = "1" -> 1 [] t = "2" -> 2
      [] t = "3" -> 3 [] t = "4" -> 4 [] t = "5" -> 5]

IsDigits(t) == t \in DOMAIN DigitTable

parseInt(t) == DigitTable[t]

\* A token that holds the character "|" (what [^|] refuses).
HasBar(t) == toLowerCaseTok(t) \in {"|", "|quantity:"}

\* String.prototype.includes: b occurs in a as a contiguous run of tokens.
Includes(a, b) ==
    \E k \in 0..(Len(a) - Len(b)) : \A i \in 1..Len(b) : a[k + i] = b[i]

\* Index of the first token at or after position i that holds "|", or
\* Len(text)+1 when there is none.
RECURSIVE NextBar(_, _)
NextBar(text, i) ==
    IF i > Len(text) THEN Len(text) + 1
    ELSE IF HasBar(text[i]) THEN i ELSE NextBar(text, i + 1)

\* /KW([^|]+)\|QUANTITY:(\d+)/i anchored at position i: the index of the
\* last token of the match, or 0 when the pattern does not match there.
MatchQuantityAt(text, kw, i) ==
    IF toLowerCaseTok(text[i]) # toLowerCaseTok(kw) THEN 0
    ELSE LET j == NextBar(text, i + 1)
         IN  IF /\ j > i + 1
                /\ j + 1 <= Len(text)
                /\ toLowerCaseTok(text[j]) = "|quantity:"
                /\ IsDigits(text[j + 1])
             THEN j + 1 ELSE 0

\* /ORDER_REMOVE:([^|]+)/i anchored at position i: greedy up to the next "|"
\* or the end of the text.
MatchRemoveAt(text, i) ==
    IF toLowerCaseTok(text[i]) # "order_remove:" THEN 0
    ELSE LET j == NextBar(text, i + 1)
         IN  IF j > i + 1 THEN j - 1 ELSE 0

MatchAt(text, kw, i) ==
    IF kw = "ORDER_REMOVE:" THEN MatchRemoveAt(text, i)
    ELSE MatchQuantityAt(text, kw, i)

\* String.prototype.match with the g flag: the non-overlapping matches, left
\* to right, each as [from, to] token positions.
RECURSIVE MatchAll(_, _, _)
MatchAll(text, kw, i) ==
    IF i > Len(text) THEN << >>
    ELSE LET e == MatchAt(text, kw, i)
         IN  IF e > 0 THEN << [from |-> i, to |-> e] >> \o MatchAll(text, kw, e + 1)
             ELSE MatchAll(text, kw, i + 1)

\* The captured groups of one match: the item name, and the quantity string.
CapturedName(text, kw, m) ==
    IF kw = "ORDER_REMOVE:" THEN SubSeq(text, m.from + 1, m.to)
    ELSE SubSeq(text, m.from + 1, m.to - 2)

CapturedQuantity(text, m) == parseInt(text[m.to])

\* String.prototype.replace(/pattern/gi, ''): the text without its matches.
RECURSIVE StripAll(_, _, _)
StripAll(text, kw, i) ==
    IF i > Len(text) THEN << >>
    ELSE LET e == MatchAt(text, kw, i)
         IN  IF e > 0 THEN StripAll(text, kw, e + 1)
             ELSE << text[i] >> \o StripAll(text, kw, i + 1)

cleanResponse(aiContent) ==
    StripAll(StripAll(StripAll(aiContent, "ORDER_ADD:", 1), "ORDER_REMOVE:", 1),
             "ORDER_UPDATE:", 1)

\* findMenuItem of the server: index into MENU, 0 for null.  An exact match
\* returns at once; otherwise the last fuzzy match of the scan is kept.
RECURSIVE findMenuItemFrom(_, _, _)
findMenuItemFrom(lowerCaseName, k, bestMatch) ==
    IF k > Len(MENU) THEN bestMatch
    ELSE LET itemLower == toLowerCase(MENU[k].name)
         IN  IF itemLower = lowerCaseName THEN k
             ELSE IF Includes(itemLower, lowerCaseName) \/ Includes(lowerCaseName, itemLower)
                  THEN findMenuItemFrom(lowerCaseName, k + 1, k)
                  ELSE findMenuItemFrom(lowerCaseName, k + 1, bestMatch)

findMenuItem(name) == findMenuItemFrom(toLowerCase(name), 1, 0)

\* ------------------------------------------------------------------ state
VARIABLES
    variant,          \* which program runs: "mem", "cli", "user", "sess" or
                      \*               "app", or which function: "find", "turn"
    sessions,         \* index.js:31   keys of the sessions Map (the value of
                      \*               key s is the session object heap.so[s])
    heap,             \* the objects of index.js: so (session.currentOrder of
                      \*               each session object), arrs (items
                      \*               arrays), lines (line objects)
    completedOrders,  \* index.js:33   orderId -> completed order object
    inflight,         \* index.js:364  per session, the chat turns that hold
                      \*               the session object and await the model
    uuid,             \* uuidv4(): number of identifiers issued so far
    currentOrder,     \* part_000:55  the global order of the command-line demo
    cliPending,       \* part_000:198 processOrderWithAI calls awaiting the model
    finalOrder,       \* part_000:264 what the last completeOrder call returned
                      \*               (<< >> before the first call and for null)
    store,            \* the Redis keyspace: key -> [doc, ttl]
    redis,            \* server.js:147 the client variable: "unset", "ready",
                      \*               or "exited" after process.exit(1)
    reqs,             \* the requests of a Redis-backed server that are
                      \*               suspended at an await (a bag)
    lostUpdate,       \* history: the last chat turn that wrote replaced a
                      \*               record another turn had written after
                      \*               this turn's load, by a different order
    call,             \* the arguments a function is studied with on its
                      \*               own (variants "find" and "turn")
    result,           \* what the function returned for them
    client,           \* useOrderStore.js:12-25 the zustand store of each
                      \*               browser client, with its localStorage
    net,              \* the fetch calls of the clients that have not been
                      \*               settled in the store yet
    lastResp          \* the last request handled: its endpoint, the session
                      \*               id it named and the status sent (0 while
                      \*               the request awaits the model)

memVars == << sessions, heap, completedOrders, inflight >>

cliVars == << currentOrder, cliPending, finalOrder >>

redisVars == << store, redis, reqs, lostUpdate >>

fnVars == << call, result >>

appVars == << client, net >>

notMem == << variant, cliVars, redisVars, fnVars, appVars >>

notCli == << variant, memVars, redisVars, fnVars, appVars >>

notRedis == << variant, memVars, cliVars, uuid, fnVars, appVars >>

notFn == << variant, lastResp, uuid, memVars, cliVars, redisVars, appVars >>

notApp == << variant, lastResp, memVars, cliVars, redis, reqs, lostUpdate, fnVars >>

vars == << variant, lastResp, uuid, memVars, cliVars, redisVars, fnVars, appVars >>

\* ------------------------------------------------------------- the heap
\* An items array is named <<sid, k>>, a line object <<sid, itemId, k>>.  A
\* name is reused only when nothing reachable refers to it any more, so the
\* naming is exact for aliasing and keeps the heap canonical.
EmptyHeap == [so |-> << >>, arrs |-> << >>, lines |-> << >>]

\* The items array seen through its references: the sequence of line records.
Deref(h, arr) == [i \in 1..Len(h.arrs[arr]) |-> h.lines[h.arrs[arr][i]]]

\* Arrays a completed order refers to.
Pinned == {completedOrders[o].items : o \in DOMAIN completedOrders}

\* Array.prototype.filter allocates a new array: a name no completed order
\* refers to (the session's previous array is garbage unless pinned).
FreshArr(h, sid) ==
    LET free == {k \in 0..Cardinality(Pinned) : << sid, k >> \notin Pinned}
    IN  << sid, CHOOSE k \in free : \A k2 \in free : k <= k2 >>

\* Lines some array still refers to.
LinesInUse(h) ==
    UNION {{h.arrs[a][i] : i \in 1..Len(h.arrs[a])} : a \in DOMAIN h.arrs}

\* An object literal allocates a new line object.
FreshLine(h, sid, itemId) ==
    LET used == {l \in LinesInUse(h) : l[1] = sid /\ l[2] = itemId}
        free == {k \in 0..Cardinality(used) : << sid, itemId, k >> \notin used}
    IN  << sid, itemId, CHOOSE k \in free : \A k2 \in free : k <= k2 >>

\* Garbage collection: session objects neither in the Map nor held by a chat
\* turn, arrays no order refers to, lines no array refers to.
Collect(h, sessS, infl, done) ==
    LET liveS == {s \in DOMAIN h.so : s \in sessS \/ infl[s] > 0}
        so2   == [s \in liveS |-> h.so[s]]
        liveA == {so2[s].items : s \in liveS} \cup {done[o].items : o \in DOMAIN done}
        arrs2 == [a \in liveA |-> h.arrs[a]]
        liveL == UNION {{arrs2[a][i] : i \in 1..Len(arrs2[a])} : a \in liveA}
    IN  [so |-> so2, arrs |-> arrs2, lines |-> [l \in liveL |-> h.lines[l]]]

\* ----------------------------------------------------- order management
\* createNewSession: a session object with an empty order.
createNewSession(h, sid) ==
    [h EXCEPT !.so   = (sid :> [items |-> << sid, 0 >>, totalCost |-> 0]) @@ @,
              !.arrs = (<< sid, 0 >> :> << >>) @@ @]

RECURSIVE calculateTotal(_)
calculateTotal(items) ==
    IF items = << >> THEN 0
    ELSE calculateTotal(SubSeq(items, 1, Len(items) - 1))
         + items[Len(items)].price * items[Len(items)].quantity

\* Array.prototype.find on the items array: position of the first line with
\* that id, 0 for undefined.
RECURSIVE FindLine(_, _, _, _)
FindLine(h, arr, itemId, i) ==
    IF i > Len(h.arrs[arr]) THEN 0
    ELSE IF h.lines[h.arrs[arr][i]].id = itemId THEN i
         ELSE FindLine(h, arr, itemId, i + 1)

\* Mutant of addItemToOrder: the existing line is not looked up, every add
\* pushes a new line.
addItemToOrder_AlwaysPush(h, menuItem, quantity, sid) ==
    IF quantity <= 0 THEN h
    ELSE LET arr == h.so[sid].items
             l   == FreshLine(h, sid, menuItem.id)
             h1  == [h EXCEPT !.lines = (l :> [id |-> menuItem.id,
                                               name |-> menuItem.name,
                                               price |-> menuItem.price,
                                               quantity |-> quantity]) @@ @,
                              !.arrs[arr] = Append(@, l)]
         IN  [h1 EXCEPT !.so[sid].totalCost = calculateTotal(Deref(h1, arr))]

addItemToOrder(h, menuItem, quantity, sid) ==
    IF quantity <= 0 THEN h
    ELSE LET arr == h.so[sid].items
             i   == FindLine(h, arr, menuItem.id, 1)
             l   == FreshLine(h, sid, menuItem.id)
             h1  == IF i > 0
                    THEN [h EXCEPT !.lines[h.arrs[arr][i]].quantity = @ + quantity]
                    ELSE [h EXCEPT !.lines = (l :> [id |-> menuItem.id,
                                                    name |-> menuItem.name,
                                                    price |-> menuItem.price,
                                                    quantity |-> quantity]) @@ @,
                                   !.arrs[arr] = Append(@, l)]
         IN  [h1 EXCEPT !.so[sid].totalCost = calculateTotal(Deref(h1, arr))]

removeItemFromOrder(h, itemId, sid) ==
    LET arr           == h.so[sid].items
        initialLength == Len(h.arrs[arr])
        filtered      == SelectSeq(h.arrs[arr], LAMBDA l : h.lines[l].id = itemId)
        new           == FreshArr(h, sid)
        h1            == [h EXCEPT !.arrs = (new :> filtered) @@ @,
                                   !.so[sid].items = new]
    IN  IF Len(filtered) < initialLength
        THEN [h1 EXCEPT !.so[sid].totalCost = calculateTotal(Deref(h1, new))]
        ELSE h1

\* Mutant of updateItemInOrder: the quantity is set and the total is left as
\* it was.
updateItemInOrder_NoRecalc(h, itemId, newQuantity, sid) ==
    LET arr == h.so[sid].items
        i   == FindLine(h, arr, itemId, 1)
    IN  IF i > 0
        THEN IF newQuantity <= 0
             THEN removeItemFromOrder(h, itemId, sid)
             ELSE [h EXCEPT !.lines[h.arrs[arr][i]].quantity = newQuantity]
        ELSE h

updateItemInOrder(h, itemId, newQuantity, sid) ==
    LET arr == h.so[sid].items
        i   == FindLine(h, arr, itemId, 1)
    IN  IF i > 0
        THEN IF newQuantity <= 0
             THEN removeItemFromOrder(h, itemId, sid)
             ELSE LET h1 == [h EXCEPT !.lines[h.arrs[arr][i]].quantity = newQuantity]
                  IN  [h1 EXCEPT !.so[sid].totalCost = calculateTotal(Deref(h1, arr))]
        ELSE h

RECURSIVE ApplyMatches(_, _, _, _, _)
\* Mutant of ApplyMatches: a name that resolves to no item ends the pass.
ApplyMatches_StopAtUnknown(h, text, kw, ms, sid) ==
    IF ms = << >> THEN h
    ELSE LET k  == findMenuItem(CapturedName(text, kw, Head(ms)))
             h1 == IF kw = "ORDER_ADD:"
                   THEN addItemToOrder(h, MENU[k], CapturedQuantity(text, Head(ms)), sid)
                   ELSE IF kw = "ORDER_REMOVE:"
                        THEN removeItemFromOrder(h, MENU[k].id, sid)
                   ELSE updateItemInOrder(h, MENU[k].id, CapturedQuantity(text, Head(ms)), sid)
         IN  IF k = 0 THEN h ELSE ApplyMatches(h1, text, kw, Tail(ms), sid)

\* One forEach pass of processOrderInstructions over the matches of one
\* directive pattern, in textual order.
ApplyMatches(h, text, kw, ms, sid) ==
    IF ms = << >> THEN h
    ELSE LET k  == findMenuItem(CapturedName(text, kw, Head(ms)))
             h1 == IF k = 0 THEN h
                   ELSE IF kw = "ORDER_ADD:"
                        THEN addItemToOrder(h, MENU[k], CapturedQuantity(text, Head(ms)), sid)
                   ELSE IF kw = "ORDER_REMOVE:"
                        THEN removeItemFromOrder(h, MENU[k].id, sid)
                   ELSE updateItemInOrder(h, MENU[k].id, CapturedQuantity(text, Head(ms)), sid)
         IN  ApplyMatches(h1, text, kw, Tail(ms), sid)

\* Mutant of processOrderInstructions: the directives are applied to a copy of
\* the order, which the session object never receives.
processOrderInstructions_OnCopy(h, aiResponse, sid) ==
    [h EXCEPT !.so[sid] = h.so[sid]]

\* Mutant of processOrderInstructions: the updates are applied first.
processOrderInstructions_UpdatesFirst(h, aiResponse, sid) ==
    LET h1 == ApplyMatches(h, aiResponse, "ORDER_UPDATE:",
                           MatchAll(aiResponse, "ORDER_UPDATE:", 1), sid)
        h2 == ApplyMatches(h1, aiResponse, "ORDER_ADD:",
                           MatchAll(aiResponse, "ORDER_ADD:", 1), sid)
    IN  ApplyMatches(h2, aiResponse, "ORDER_REMOVE:",
                     MatchAll(aiResponse, "ORDER_REMOVE:", 1), sid)

processOrderInstructions(h, aiResponse, sid) ==
    LET h1 == ApplyMatches(h, aiResponse, "ORDER_ADD:",
                           MatchAll(aiResponse, "ORDER_ADD:", 1), sid)
        h2 == ApplyMatches(h1, aiResponse, "ORDER_REMOVE:",
                           MatchAll(aiResponse, "ORDER_REMOVE:", 1), sid)
    IN  ApplyMatches(h2, aiResponse, "ORDER_UPDATE:",
                     MatchAll(aiResponse, "ORDER_UPDATE:", 1), sid)

\* The object literal of the complete handler: the spread copies the fields
\* of session.currentOrder (the items reference and the total), then the new
\* fields are set.
\* Mutant of snapshotOrder: the total is not copied.
snapshotOrder_NoTotal(order, orderId, customerInfo) ==
    [items        |-> order.items,
     totalCost    |-> 0,
     id           |-> orderId,
     status       |-> "confirmed",
     timestamp    |-> "iso",
     customerInfo |-> IF customerInfo = "none" THEN "{}" ELSE customerInfo]

snapshotOrder(order, orderId, customerInfo) ==
    [items        |-> order.items,
     totalCost    |-> order.totalCost,
     id           |-> orderId,
     status       |-> "confirmed",
     timestamp    |-> "iso",
     customerInfo |-> IF customerInfo = "none" THEN "{}" ELSE customerInfo]

\* The empty order of the command-line demo (null id and timestamp as "null").
EmptyDraft ==
    [id |-> 0, items |-> << >>, totalCost |-> 0, status |-> "pending", timestamp |-> "null"]

\* JSON serialisation of an order object: a value, detached from the heap.
OrderJson(h, ord) == [items |-> Deref(h, ord.items), totalCost |-> ord.totalCost]

\* ------------------------------------------------ inputs of the requests
\* Texts the model may return (tokens).  They cover each directive kind, an
\* unknown dish, a zero quantity, prose after a directive, and directives in
\* an order other than ADD, REMOVE, UPDATE.
AIResponses ==
    { << "Sure" >>,
      << "ORDER_ADD:", "Jollof", "Rice", "|QUANTITY:", "1", "Certainly" >>,
      << "ORDER_ADD:", "Chapman", "|QUANTITY:", "2" >>,
      << "ORDER_ADD:", "Pizza", "|QUANTITY:", "1" >>,
      << "ORDER_ADD:", "Chapman", "|QUANTITY:", "0" >>,
      << "ORDER_REMOVE:", "Chapman" >>,
      << "ORDER_REMOVE:", "Jollof", "Rice", "Alright" >>,
      << "ORDER_UPDATE:", "Jollof", "Rice", "|QUANTITY:", "3" >>,
      << "ORDER_UPDATE:", "Chapman", "|QUANTITY:", "0" >>,
      << "ORDER_UPDATE:", "Chapman", "|QUANTITY:", "1", "Sure",
         "ORDER_ADD:", "Chapman", "|QUANTITY:", "1" >> }

\* Item ids a PUT request may name, and the quantities of its body.
PutItemIds == {"jollof_rice", "chapman", "zobo"}

PutQuantities == (0 - 1)..MaxQty

\* customerInfo of a complete request: "none" stands for a missing field.
CustomerInfos == {"none", "guest"}

\* Texts an Error object may carry in its message property.
ErrorMessages == {"quota exceeded", "socket hang up"}

\* Failures of the model call: what the catch block tells apart (status 429,
\* httpResponse.status 401, anything else) and the error's own message.
ModelErrors == [class : {"rate_limit", "auth", "other"}, message : ErrorMessages]

\* Mutant of errorStatus: every failure is answered 500.
errorStatus_Always500(error) == 500

\* index.js:405-412, the status the catch block of POST /api/chat answers with
errorStatus(error) ==
    IF error.class = "rate_limit" THEN 429
    ELSE IF error.class = "auth" THEN 401
    ELSE 500

\* index.js:404-409, the text the catch block of POST /api/chat answers with
userFacingError(error) ==
    IF error.class = "rate_limit"
    THEN "We are experiencing high traffic. Please try again in a moment (rate limit)."
    ELSE IF error.class = "auth"
    THEN "Authentication error with the AI service. Please check your Hugging Face token."
    ELSE "An unexpected error occurred. Please try again."

\* Session ids a request may carry: every id issued so far, and an unknown one.
RequestIds == 0..uuid

\* Every line stays within the quantity bound of the model.
WithinBounds(h) == \A l \in DOMAIN h.lines : h.lines[l].quantity <= MaxQty

NoResp == [op |-> "none", sid |-> 0, status |-> 0]

\* ------------------------------------------- the in-memory server (index.js)
InitMem ==
    /\ variant = "mem"
    /\ sessions = {}
    /\ heap = EmptyHeap
    /\ completedOrders = << >>
    /\ inflight = << >>
    /\ uuid = 0
    /\ lastResp = NoResp
    /\ currentOrder = EmptyDraft
    /\ cliPending = 0
    /\ finalOrder = << >>
    /\ store = << >>
    /\ redis = "unset"
    /\ reqs = EmptyBag
    /\ lostUpdate = FALSE
    /\ client = << >>
    /\ net = {}
    /\ call = << >>
    /\ result = << >>

\* POST /api/session/start (the first one: see the header)
StartSession ==
    /\ variant = "mem"
    /\ DOMAIN inflight = {}
    /\ LET sessionId == uuid + 1
           h1 == createNewSession(heap, sessionId)
       IN  /\ uuid' = sessionId
           /\ sessions' = sessions \cup {sessionId}
           /\ inflight' = (sessionId :> 0) @@ inflight
           /\ heap' = h1
           /\ lastResp' = [op |-> "start", sid |-> sessionId, status |-> 200]
    /\ UNCHANGED << notMem, completedOrders >>

\* POST /api/chat, up to the await of the model call: an unknown session is
\* refused, otherwise the turn holds the session object and waits.  At most
\* limit turns of one session are followed at the same time.
ChatRequestWithin(sessionId, limit) ==
    /\ variant = "mem"
    /\ IF sessionId = 0 \/ sessionId \notin sessions
       THEN /\ lastResp' = [op |-> "chat", sid |-> sessionId, status |-> 400]
            /\ UNCHANGED inflight
       ELSE /\ inflight[sessionId] < limit
            /\ inflight' = [inflight EXCEPT ![sessionId] = @ + 1]
            /\ lastResp' = [op |-> "chat", sid |-> sessionId, status |-> 0]
    /\ UNCHANGED << notMem, sessions, heap, completedOrders, uuid >>

ChatRequest(sessionId) == ChatRequestWithin(sessionId, MaxInflight)

\* POST /api/chat, after the model call returned a choice: the directives
\* are applied to the session object the turn holds, the text is cleaned,
\* the answer is sent.
ChatReply(sessionId, aiContent) ==
    /\ variant = "mem"
    /\ sessionId \in DOMAIN inflight
    /\ inflight[sessionId] > 0
    /\ LET h1   == processOrderInstructions(heap, aiContent, sessionId)
           infl == [inflight EXCEPT ![sessionId] = @ - 1]
       IN  /\ WithinBounds(h1)
           /\ inflight' = infl
           /\ lastResp' = [op |-> "chat", sid |-> sessionId, status |-> 200]
           /\ heap' = Collect(h1, sessions, infl, completedOrders)
    /\ UNCHANGED << notMem, sessions, completedOrders, uuid >>

\* POST /api/chat, the model call returned no choice: status 500.
ChatNoChoice(sessionId) ==
    /\ variant = "mem"
    /\ sessionId \in DOMAIN inflight
    /\ inflight[sessionId] > 0
    /\ LET infl == [inflight EXCEPT ![sessionId] = @ - 1]
       IN  /\ inflight' = infl
           /\ heap' = Collect(heap, sessions, infl, completedOrders)
    /\ lastResp' = [op |-> "chat", sid |-> sessionId, status |-> 500]
    /\ UNCHANGED << notMem, sessions, completedOrders, uuid >>

\* POST /api/chat, the model call threw: the catch block picks the status.
ChatError(sessionId, error) ==
    /\ variant = "mem"
    /\ sessionId \in DOMAIN inflight
    /\ inflight[sessionId] > 0
    /\ LET infl == [inflight EXCEPT ![sessionId] = @ - 1]
       IN  /\ inflight' = infl
           /\ heap' = Collect(heap, sessions, infl, completedOrders)
    /\ lastResp' = [op |-> "chat", sid |-> sessionId, status |-> errorStatus(error),
                    response |-> userFacingError(error)]
    /\ UNCHANGED << notMem, sessions, completedOrders, uuid >>

\* GET /api/order/:sessionId
GetOrder(sessionId) ==
    /\ variant = "mem"
    /\ lastResp' = IF sessionId \notin sessions
                   THEN [op |-> "get", sid |-> sessionId, status |-> 404]
                   ELSE [op |-> "get", sid |-> sessionId, status |-> 200]
    /\ UNCHANGED << notMem, memVars, uuid >>

\* PUT /api/order/:sessionId/item/:itemId
PutItem(sessionId, itemId, quantity) ==
    /\ variant = "mem"
    /\ IF sessionId \notin sessions
       THEN /\ lastResp' = [op |-> "put", sid |-> sessionId, status |-> 404]
            /\ UNCHANGED heap
       ELSE IF FindLine(heap, heap.so[sessionId].items, itemId, 1) = 0
       THEN /\ lastResp' = [op |-> "put", sid |-> sessionId, status |-> 404]
            /\ UNCHANGED heap
       ELSE LET h1 == updateItemInOrder(heap, itemId, quantity, sessionId)
            IN  /\ heap' = Collect(h1, sessions, inflight, completedOrders)
                /\ lastResp' = [op |-> "put", sid |-> sessionId, status |-> 200]
    /\ UNCHANGED << notMem, sessions, completedOrders, inflight, uuid >>

\* Mutant of Complete: the session stays in the Map.
Complete_NoDelete(sessionId, customerInfo) ==
    /\ variant = "mem"
    /\ IF sessionId \notin sessions
       THEN /\ lastResp' = [op |-> "complete", sid |-> sessionId, status |-> 404]
            /\ UNCHANGED << memVars, uuid >>
       ELSE IF Len(heap.arrs[heap.so[sessionId].items]) = 0
       THEN /\ lastResp' = [op |-> "complete", sid |-> sessionId, status |-> 400]
            /\ UNCHANGED << memVars, uuid >>
       ELSE LET orderId == uuid + 1
                completedOrder == snapshotOrder(heap.so[sessionId], orderId, customerInfo)
                done == (orderId :> completedOrder) @@ completedOrders
            IN  /\ uuid' = orderId
                /\ completedOrders' = done
                /\ heap' = Collect(heap, sessions, inflight, done)
                /\ lastResp' = [op |-> "complete", sid |-> sessionId, status |-> 200]
                /\ UNCHANGED << sessions, inflight >>
    /\ UNCHANGED notMem

\* POST /api/order/:sessionId/complete
Complete(sessionId, customerInfo) ==
    /\ variant = "mem"
    /\ IF sessionId \notin sessions
       THEN /\ lastResp' = [op |-> "complete", sid |-> sessionId, status |-> 404]
            /\ UNCHANGED << memVars, uuid >>
       ELSE IF Len(heap.arrs[heap.so[sessionId].items]) = 0
       THEN /\ lastResp' = [op |-> "complete", sid |-> sessionId, status |-> 400]
            /\ UNCHANGED << memVars, uuid >>
       ELSE LET orderId == uuid + 1
                completedOrder == snapshotOrder(heap.so[sessionId], orderId, customerInfo)
                done == (orderId :> completedOrder) @@ completedOrders
                sess == sessions \ {sessionId}
            IN  /\ uuid' = orderId
                /\ completedOrders' = done
                /\ sessions' = sess
                /\ heap' = Collect(heap, sess, inflight, done)
                /\ lastResp' = [op |-> "complete", sid |-> sessionId, status |-> 200]
                /\ UNCHANGED inflight
    /\ UNCHANGED notMem

\* GET /api/order/completed/:orderId
GetCompleted(orderId) ==
    /\ variant = "mem"
    /\ lastResp' = IF orderId \notin DOMAIN completedOrders
                   THEN [op |-> "completed", sid |-> orderId, status |-> 404]
                   ELSE [op |-> "completed", sid |-> orderId, status |-> 200]
    /\ UNCHANGED << notMem, memVars, uuid >>

\* the operations on a session that is open, but for the first part of
\* POST /api/chat
MemOpen ==
    \/ StartSession
    \/ \E sessionId \in RequestIds, aiContent \in AIResponses : ChatReply(sessionId, aiContent)
    \/ \E sessionId \in RequestIds : ChatNoChoice(sessionId)
    \/ \E sessionId \in RequestIds, error \in ModelErrors : ChatError(sessionId, error)
    \/ \E sessionId \in RequestIds : GetOrder(sessionId)
    \/ \E sessionId \in RequestIds, itemId \in PutItemIds, quantity \in PutQuantities :
           PutItem(sessionId, itemId, quantity)

\* the completion of an order and the reading of a completed order
MemComplete ==
    \/ \E sessionId \in RequestIds, customerInfo \in CustomerInfos :
           Complete(sessionId, customerInfo)
    \/ \E orderId \in RequestIds : GetCompleted(orderId)

NextMem ==
    \/ \E sessionId \in RequestIds : ChatRequest(sessionId)
    \/ MemOpen
    \/ MemComplete

SpecMem == InitMem /\ [][NextMem]_vars

\* Chat turns of one session that may await the model at the same time when
\* overlapping turns are studied.
MaxOverlap == 2

\* the in-memory server with overlapping chat turns of a session, followed
\* while the session is open: once the order is completed the session is
\* deleted and its order can no longer be requested
NextOverlap ==
    \/ \E sessionId \in RequestIds : ChatRequestWithin(sessionId, MaxOverlap)
    \/ MemOpen

SpecOverlap == InitMem /\ [][NextOverlap]_vars

\* ------------------------------------- the command-line demo (part_000)
\* MENU of the demo in catalog iteration order; idt is the id as tokens.
CliMENU ==
    << [id |-> "jollof_rice", idt |-> <<"jollof", "_", "rice">>, name |-> <<"Jollof", "Rice">>,                  price |-> 2500],
       [id |-> "fried_rice",  idt |-> <<"fried", "_", "rice">>,  name |-> <<"Fried", "Rice">>,                   price |-> 2800],
       [id |-> "pounded_yam", idt |-> <<"pounded", "_", "yam">>, name |-> <<"Pounded", "Yam", "with", "Egusi">>, price |-> 3500],
       [id |-> "suya",        idt |-> <<"suya">>,                name |-> <<"Suya", "Platter">>,                 price |-> 2000],
       [id |-> "zobo",        idt |-> <<"zobo">>,                name |-> <<"Zobo", "Drink">>,                   price |-> 800],
       [id |-> "chapman",     idt |-> <<"chapman">>,             name |-> <<"Chapman">>,                         price |-> 1200],
       [id |-> "water",       idt |-> <<"water">>,               name |-> <<"Bottled", "Water">>,                price |-> 300],
       [id |-> "soft_drink",  idt |-> <<"soft", "_", "drink">>,  name |-> <<"Soft", "Drink">>,                   price |-> 500],
       [id |-> "plantain",    idt |-> <<"plantain">>,            name |-> <<"Fried", "Plantain">>,               price |-> 800],
       [id |-> "moi_moi",     idt |-> <<"moi", "_", "moi">>,     name |-> <<"Moi", "Moi">>,                      price |-> 1000],
       [id |-> "salad",       idt |-> <<"salad">>,               name |-> <<"Garden", "Salad">>,                 price |-> 1200] >>

\* findMenuItem of the demo: the first item whose name or id contains the
\* query, or whose first name token occurs in the query; 0 for null.
RECURSIVE cliFindMenuItemFrom(_, _)
cliFindMenuItemFrom(normalizedName, k) ==
    IF k > Len(CliMENU) THEN 0
    ELSE IF \/ Includes(toLowerCase(CliMENU[k].name), normalizedName)
            \/ Includes(toLowerCase(CliMENU[k].idt), normalizedName)
            \/ Includes(normalizedName, << toLowerCaseTok(CliMENU[k].name[1]) >>)
         THEN k
         ELSE cliFindMenuItemFrom(normalizedName, k + 1)

cliFindMenuItem(itemName) == cliFindMenuItemFrom(toLowerCase(itemName), 1)

\* Position of the first line of the order with that id, 0 for undefined.
RECURSIVE cliFindLine(_, _, _)
cliFindLine(items, itemId, i) ==
    IF i > Len(items) THEN 0
    ELSE IF items[i].id = itemId THEN i ELSE cliFindLine(items, itemId, i + 1)

\* addItemToOrder of the demo (no check of the quantity).
cliAddItemToOrder(order, menuItem, quantity) ==
    LET i     == cliFindLine(order.items, menuItem.id, 1)
        items == IF i > 0
                 THEN [order.items EXCEPT ![i].quantity = @ + quantity]
                 ELSE Append(order.items, [id |-> menuItem.id, name |-> menuItem.name,
                                           price |-> menuItem.price, quantity |-> quantity])
    IN  [order EXCEPT !.items = items, !.totalCost = calculateTotal(items)]

\* processOrderInstructions of the demo: ORDER_ADD only.
RECURSIVE cliApplyMatches(_, _, _)
cliApplyMatches(order, text, ms) ==
    IF ms = << >> THEN order
    ELSE LET k == cliFindMenuItem(CapturedName(text, "ORDER_ADD:", Head(ms)))
             o == IF k = 0 THEN order
                  ELSE cliAddItemToOrder(order, CliMENU[k], CapturedQuantity(text, Head(ms)))
         IN  cliApplyMatches(o, text, Tail(ms))

cliProcessOrderInstructions(order, aiResponse) ==
    cliApplyMatches(order, aiResponse, MatchAll(aiResponse, "ORDER_ADD:", 1))

\* finalizeOrder: null (<< >>) for an empty order, else the order with its
\* id, timestamp and status set, and a copy of it.
\* Mutant of finalizeOrder: the empty order is not refused.
finalizeOrder_NoEmptyCheck(order, orderId) ==
    << [order EXCEPT !.id = orderId, !.timestamp = "iso", !.status = "confirmed"] >>

finalizeOrder(order, orderId) ==
    IF Len(order.items) = 0 THEN << >>
    ELSE << [order EXCEPT !.id = orderId, !.timestamp = "iso", !.status = "confirmed"] >>

InitCli ==
    /\ variant = "cli"
    /\ sessions = {}
    /\ heap = EmptyHeap
    /\ completedOrders = << >>
    /\ inflight = << >>
    /\ uuid = 0
    /\ lastResp = NoResp
    /\ currentOrder = EmptyDraft
    /\ cliPending = 0
    /\ finalOrder = << >>
    /\ store = << >>
    /\ redis = "unset"
    /\ reqs = EmptyBag
    /\ lostUpdate = FALSE
    /\ client = << >>
    /\ net = {}
    /\ call = << >>
    /\ result = << >>

\* startOrderSession, up to the await of the model call.
startOrderSession ==
    /\ variant = "cli"
    /\ cliPending < MaxInflight
    /\ currentOrder' = EmptyDraft
    /\ cliPending' = cliPending + 1
    /\ lastResp' = [op |-> "startOrderSession", sid |-> 0, status |-> 0]
    /\ UNCHANGED << notCli, uuid, finalOrder >>

\* takeOrder, up to the await of the model call.
takeOrder ==
    /\ variant = "cli"
    /\ cliPending < MaxInflight
    /\ cliPending' = cliPending + 1
    /\ lastResp' = [op |-> "takeOrder", sid |-> 0, status |-> 0]
    /\ UNCHANGED << notCli, uuid, currentOrder, finalOrder >>

\* processOrderWithAI after the model call returned a choice.
CliReply(aiContent) ==
    /\ variant = "cli"
    /\ cliPending > 0
    /\ LET o == cliProcessOrderInstructions(currentOrder, aiContent)
       IN  /\ \A i \in 1..Len(o.items) : o.items[i].quantity <= MaxQty
           /\ currentOrder' = o
    /\ cliPending' = cliPending - 1
    /\ lastResp' = [op |-> "takeOrder", sid |-> 0, status |-> 200]
    /\ UNCHANGED << notCli, uuid, finalOrder >>

\* processOrderWithAI when the model call returned no choice or threw: a
\* fixed message is returned.
CliFail ==
    /\ variant = "cli"
    /\ cliPending > 0
    /\ cliPending' = cliPending - 1
    /\ lastResp' = [op |-> "takeOrder", sid |-> 0, status |-> 500]
    /\ UNCHANGED << notCli, uuid, currentOrder, finalOrder >>

\* completeOrder
completeOrder ==
    /\ variant = "cli"
    /\ uuid < MaxOrders
    /\ LET final == finalizeOrder(currentOrder, uuid + 1)
       IN  IF final # << >>
           THEN /\ uuid' = uuid + 1
                /\ currentOrder' = EmptyDraft
                /\ finalOrder' = final
                /\ lastResp' = [op |-> "completeOrder", sid |-> 0, status |-> 200]
           ELSE /\ finalOrder' = << >>
                /\ lastResp' = [op |-> "completeOrder", sid |-> 0, status |-> 400]
                /\ UNCHANGED << uuid, currentOrder >>
    /\ UNCHANGED << notCli, cliPending >>

NextCli ==
    \/ startOrderSession
    \/ takeOrder
    \/ \E aiContent \in AIResponses : CliReply(aiContent)
    \/ CliFail
    \/ completeOrder

SpecCli == InitCli /\ [][NextCli]_vars

\* The two text-embedded variants.
InitText == InitMem \/ InitCli

NextText == NextMem \/ NextCli

SpecText == InitText /\ [][NextText]_vars

\* ------------------------------- the Redis-backed servers (server/server.js)
\* A value that may be undefined is a sequence of length at most one.
Undefined == << >>

\* a missing userId or sessionId field of a request
NoId == "undefined"

\* server.js:14 and :204, the lifetime in seconds given to every key written
SESSION_TTL == 86400

\* server.js:162 and :449, the order of a session that was just created
EmptyOrder == [items |-> << >>, totalCost |-> 0, status |-> "draft"]

\* server.js:163-167 and :450-454, the context of such a session
EmptyContext ==
    [previouslyMentionedItems |-> << >>,
     pendingConfirmations |-> << >>,
     userPreferences |-> [allergies |-> << >>, frequentOrders |-> << >>]]

\* server.js:161-168 and :448-455
FreshSession == [order |-> << EmptyOrder >>, context |-> << EmptyContext >>]

\* the id Math.random gives to the session that is created (server.js:447)
NewSessionId == "sess_1"

\* redis.get: the document under the key, or null
redisGet(st, key) == IF key \in DOMAIN st THEN << st[key].doc >> ELSE Undefined

\* Mutant of redisSetEx: a key that exists keeps its remaining lifetime.
redisSetEx_KeepTtl(st, key, doc, ttl) ==
    [k \in DOMAIN st \cup {key} |->
        IF k = key
        THEN [doc |-> doc, ttl |-> IF key \in DOMAIN st THEN st[key].ttl ELSE ttl]
        ELSE st[k]]

\* redis.set(key, doc, 'EX', ttl): ttl is the lifetime the key has left
redisSetEx(st, key, doc, ttl) ==
    [k \in DOMAIN st \cup {key} |->
        IF k = key THEN [doc |-> doc, ttl |-> ttl] ELSE st[k]]

\* a write that keeps the record a key already holds
redisSetNx(st, key, doc, ttl) ==
    IF key \in DOMAIN st THEN st ELSE redisSetEx(st, key, doc, ttl)

\* the document of a userId session as stored: JSON of {data: sessionData}
UserDoc(sessionData) == [data |-> sessionData]

updateSession_Nx(st, userId, sessionData) ==
    redisSetNx(st, userId, UserDoc(sessionData), SESSION_TTL)

\* server.js:181-188
updateSession(st, userId, sessionData) ==
    redisSetEx(st, userId, UserDoc(sessionData), SESSION_TTL)

\* server.js:472-479
sessUpdateSession(st, sessionId, sessionData) ==
    redisSetEx(st, sessionId, sessionData, SESSION_TTL)

\* server.js:170, the write getUserSession makes when the key was missing
getUserSessionCreate(st, userId) ==
    redisSetEx(st, userId, UserDoc(FreshSession), SESSION_TTL)

\* server.js:445-470; newSessionId is the id Math.random gives when none was
\* sent; ok is FALSE when the function throws 'Session not found'
getOrCreateSession(st, sessionId, newSessionId) ==
    IF sessionId = NoId
    THEN [ok |-> TRUE, sessionId |-> newSessionId, session |-> FreshSession,
          store |-> redisSetEx(st, newSessionId, FreshSession, SESSION_TTL)]
    ELSE LET sessionData == redisGet(st, sessionId) IN
         IF sessionData = Undefined
         THEN [ok |-> FALSE, sessionId |-> sessionId, session |-> FreshSession,
               store |-> st]
         ELSE [ok |-> TRUE, sessionId |-> sessionId,
               session |-> sessionData[1], store |-> st]

\* server.js:98-102, the session a userId turn writes
UserNewSession_SpreadLast(userSession, response) ==
    [order |-> userSession.order, context |-> userSession.context]

UserNewSession(userSession, response) ==
    [userSession EXCEPT !.order = response.currentOrder,
                        !.context = response.context]

\* server.js:409-414, the session a sessionId turn writes
SessNewSession(session, parsedResponse) ==
    [order |-> IF parsedResponse.currentOrder # Undefined
               THEN parsedResponse.currentOrder ELSE session.order,
     context |-> IF parsedResponse.context # Undefined
                 THEN parsedResponse.context ELSE session.context]

\* ---- inputs of the Redis-backed servers
Line(id, name, price, quantity) ==
    [id |-> id, name |-> name, price |-> price, quantity |-> quantity]

PayloadOrders ==
    { [items |-> << Line("jollof_rice", "Jollof Rice", 2500, 1) >>,
       totalCost |-> 2500, status |-> "draft"],
      [items |-> << Line("chapman", "Chapman", 1500, 2) >>,
       totalCost |-> 3000, status |-> "draft"] }

PayloadContexts ==
    { [EmptyContext EXCEPT !.previouslyMentionedItems = << "jollof_rice" >>] }

\* what result.response.text() can be: text that is not JSON, or a JSON object
\* with or without a currentOrder and a context
ModelTexts ==
    { [json |-> FALSE, currentOrder |-> Undefined, context |-> Undefined] }
    \cup
    [json : {TRUE},
     currentOrder : {Undefined} \cup { << o >> : o \in PayloadOrders },
     context : {Undefined} \cup { << c >> : c \in PayloadContexts }]

\* Mutant of JSONparse: text that is not JSON is read as an empty object.
JSONparse_Lenient(text) ==
    << [currentOrder |-> text.currentOrder, context |-> text.context] >>

\* JSON.parse of the model's text (server.js:98 and :411): the object, or
\* Undefined when it throws a SyntaxError
JSONparse(text) ==
    IF text.json
    THEN << [currentOrder |-> text.currentOrder, context |-> text.context] >>
    ELSE Undefined

UserIds == {"u1", NoId}

\* sessionIds a client may send: none, one the server issued, one it never did
SessionIds == {NoId, "sess_0"} \cup (IF uuid = 0 THEN {} ELSE {NewSessionId})

RedisNoResp ==
    [op |-> "none", sid |-> NoId, status |-> 0, error |-> "", details |-> Undefined,
     body |-> Undefined,
     follows |-> FALSE]

\* a response; follows is history: the response sent before this one was a
\* successful chat turn of the same session whose payload carried a currentOrder
Resp(op, sid, status, error, body) ==
    [op |-> op, sid |-> sid, status |-> status, error |-> error, details |-> Undefined,
     body |-> body,
     follows |-> /\ lastResp.op = "chat"
                 /\ lastResp.status = 200
                 /\ lastResp.sid = sid
                 /\ lastResp.body[1].currentOrder # Undefined]

\* a response of the sessionId server whose body has a details property: the
\* message of the error that was caught (server.js:430-433, 436-440)
RespDetails(op, sid, status, error, details) ==
    [Resp(op, sid, status, error, Undefined) EXCEPT !.details = << details >>]

\* the message of the SyntaxError JSON.parse throws (it quotes the text)
SyntaxErrorMessage(text) == "Unexpected token"

Req(kind, id, pc, session, history) ==
    [kind |-> kind, id |-> id, pc |-> pc, session |-> session, history |-> history]

Add(bag, r) == bag (+) SetToBag({r})

Drop(bag, r) == bag (-) SetToBag({r})

InitRedis(v) ==
    /\ variant = v
    /\ sessions = {}
    /\ heap = EmptyHeap
    /\ completedOrders = << >>
    /\ inflight = << >>
    /\ uuid = 0
    /\ currentOrder = EmptyDraft
    /\ cliPending = 0
    /\ finalOrder = << >>
    /\ store = << >>
    /\ redis = "unset"
    /\ reqs = EmptyBag
    /\ lostUpdate = FALSE
    /\ client = << >>
    /\ net = {}
    /\ call = << >>
    /\ result = << >>
    /\ lastResp = RedisNoResp

\* server.js:147-156 and :208-216, getRedisClient resolves
RedisConnect ==
    /\ variant \in {"user", "sess"}
    /\ redis = "unset"
    /\ redis' = "ready"
    /\ UNCHANGED << notRedis, store, reqs, lostUpdate, lastResp >>

\* ... or rejects, and the process exits
RedisConnectFail ==
    /\ variant \in {"user", "sess"}
    /\ redis = "unset"
    /\ redis' = "exited"
    /\ UNCHANGED << notRedis, store, reqs, lostUpdate, lastResp >>

\* the lifetime of a key runs out
Expire(key) ==
    /\ variant \in {"user", "sess"}
    /\ key \in DOMAIN store
    /\ store' = [k \in DOMAIN store \ {key} |-> store[k]]
    /\ UNCHANGED << notRedis, redis, reqs, lostUpdate, lastResp >>

\* Seconds that pass in one step of the clock: half the lifetime of a key.
Elapse == SESSION_TTL \div 2

\* d seconds pass: every key has d seconds less to live, and the keys whose
\* lifetime has run out are gone
Tick(d) ==
    /\ variant \in {"user", "sess"}
    /\ DOMAIN store # {}
    /\ store' = [k \in {j \in DOMAIN store : store[j].ttl > d} |->
                    [store[k] EXCEPT !.ttl = @ - d]]
    /\ UNCHANGED << notRedis, redis, reqs, lostUpdate, lastResp >>

\* ---- the userId server (server.js:1-192)
InitUser == InitRedis("user")

\* server.js:37-46, what POST /chat does once getUserSession has returned
UserChatProceed(r, userSession) ==
    IF r.id = NoId
    THEN /\ lastResp' = Resp("chat", r.id, 400, "User ID is required", Undefined)
         /\ reqs' = Drop(reqs, r)
    ELSE IF ~r.history
    THEN /\ lastResp' = Resp("chat", r.id, 500, "Internal server error", Undefined)
         /\ reqs' = Drop(reqs, r)
    ELSE /\ lastResp' = lastResp
         /\ reqs' = Add(Drop(reqs, r), Req("chat", r.id, "model", << userSession >>, TRUE))

\* POST /chat arrives (server.js:32-35, 158-160): the handler calls
\* getUserSession, which reads the key
UserChat(userId, history) ==
    /\ variant = "user"
    /\ redis # "exited"
    /\ BagCardinality(reqs) < MaxReq
    /\ IF redis = "unset"
       THEN /\ lastResp' = Resp("chat", userId, 500, "Internal server error", Undefined)
            /\ reqs' = reqs
       ELSE LET userSession == redisGet(store, userId)
                r == Req("chat", userId, "create", Undefined, history) IN
            IF userSession = Undefined
            THEN /\ reqs' = Add(reqs, r)
                 /\ lastResp' = lastResp
            ELSE UserChatProceed(r, userSession[1].data)
    /\ UNCHANGED << notRedis, store, redis, lostUpdate >>

\* GET /get-session arrives (server.js:121-133)
UserGetSession(userId) ==
    /\ variant = "user"
    /\ redis # "exited"
    /\ BagCardinality(reqs) < MaxReq
    /\ IF userId = NoId
       THEN /\ lastResp' = Resp("get-session", userId, 400, "User ID is required", Undefined)
            /\ reqs' = reqs
       ELSE IF redis = "unset"
       THEN /\ lastResp' = Resp("get-session", userId, 500, "Internal server error", Undefined)
            /\ reqs' = reqs
       ELSE LET userSession == redisGet(store, userId) IN
            IF userSession = Undefined
            THEN /\ reqs' = Add(reqs, Req("get-session", userId, "create", Undefined, TRUE))
                 /\ lastResp' = lastResp
            ELSE /\ lastResp' = Resp("get-session", userId, 200, "", << userSession[1].data >>)
                 /\ reqs' = reqs
    /\ UNCHANGED << notRedis, store, redis, lostUpdate >>

\* getUserSession found no record: it writes a new one and returns it
\* (server.js:161-171), and the handler that called it goes on
UserCreate(r) ==
    /\ variant = "user"
    /\ r \in BagToSet(reqs)
    /\ r.pc = "create"
    /\ store' = getUserSessionCreate(store, r.id)
    /\ IF r.kind = "get-session"
       THEN /\ lastResp' = Resp("get-session", r.id, 200, "", << FreshSession >>)
            /\ reqs' = Drop(reqs, r)
       ELSE UserChatProceed(r, FreshSession)
    /\ UNCHANGED << notRedis, redis, lostUpdate >>

\* the model answers a userId turn (server.js:96-111)
UserModelReply(r, text) ==
    /\ variant = "user"
    /\ r \in BagToSet(reqs)
    /\ r.pc = "model"
    /\ reqs' = Drop(reqs, r)
    /\ IF JSONparse(text) = Undefined
       THEN /\ lastResp' = Resp("chat", r.id, 500, "Internal server error", Undefined)
            /\ UNCHANGED << store, lostUpdate >>
       ELSE LET response == JSONparse(text)[1]
                newSession == UserNewSession(r.session[1], response) IN
            /\ store' = updateSession(store, r.id, newSession)
            /\ lastResp' = Resp("chat", r.id, 200, "",
                                << response >>)
            /\ lostUpdate' =
                   /\ r.id \in DOMAIN store
                   /\ store[r.id].doc.data # r.session[1]
                   /\ store[r.id].doc.data.order # Undefined
                   /\ store[r.id].doc.data.order[1] \in PayloadOrders
                   /\ store[r.id].doc.data.order # newSession.order
    /\ UNCHANGED << notRedis, redis >>

\* generateContent rejects with an error of the given message
\* (server.js:114-117)
UserModelError(r, message) ==
    /\ variant = "user"
    /\ r \in BagToSet(reqs)
    /\ r.pc = "model"
    /\ reqs' = Drop(reqs, r)
    /\ lastResp' = Resp("chat", r.id, 500, "Internal server error", Undefined)
    /\ UNCHANGED << notRedis, store, redis, lostUpdate >>

UserHandlers ==
    \/ RedisConnect
    \/ RedisConnectFail
    \/ \E userId \in UserIds, history \in BOOLEAN : UserChat(userId, history)
    \/ \E userId \in UserIds : UserGetSession(userId)
    \/ \E r \in BagToSet(reqs) : UserCreate(r)
    \/ \E r \in BagToSet(reqs), text \in ModelTexts : UserModelReply(r, text)
    \/ \E r \in BagToSet(reqs), message \in ErrorMessages : UserModelError(r, message)

NextUser ==
    \/ \E key \in DOMAIN store : Expire(key)
    \/ UserHandlers

SpecUser == InitUser /\ [][NextUser]_vars

\* ---- the sessionId server (server.js:194-483)
InitSess == InitRedis("sess")

\* POST /chat arrives (server.js:331-346, 445-470); GEMINI_API_KEY is set.
\* One request creates a session (see the header).
SessChat(sessionId) ==
    /\ variant = "sess"
    /\ redis # "exited"
    /\ BagCardinality(reqs) < MaxReq
    /\ (redis = "ready" /\ sessionId = NoId) => uuid = 0
    /\ IF redis = "unset"
       THEN /\ lastResp' = RespDetails("chat", sessionId, 500,
                                        "An error occurred while processing your request",
                                        "Redis client not initialized")
            /\ UNCHANGED << reqs, store, uuid >>
       ELSE LET got == getOrCreateSession(store, sessionId, NewSessionId) IN
            IF ~got.ok
            THEN /\ lastResp' = RespDetails("chat", sessionId, 500,
                                             "An error occurred while processing your request",
                                             "Session not found")
                 /\ UNCHANGED << reqs, store, uuid >>
            ELSE /\ store' = got.store
                 /\ uuid' = IF sessionId = NoId THEN uuid + 1 ELSE uuid
                 /\ reqs' = Add(reqs, Req("chat", got.sessionId, "model", << got.session >>, TRUE))
                 /\ lastResp' = lastResp
    /\ UNCHANGED << variant, memVars, cliVars, fnVars, appVars, redis, lostUpdate >>

\* the model answers a sessionId turn (server.js:395-429)
SessModelReply(r, text) ==
    /\ variant = "sess"
    /\ r \in BagToSet(reqs)
    /\ r.pc = "model"
    /\ reqs' = Drop(reqs, r)
    /\ IF JSONparse(text) = Undefined
       THEN /\ lastResp' = RespDetails("chat", r.id, 500, "Failed to process AI response",
                                        SyntaxErrorMessage(text))
            /\ UNCHANGED << store, lostUpdate >>
       ELSE LET parsedResponse == JSONparse(text)[1]
                session == SessNewSession(r.session[1], parsedResponse) IN
            /\ store' = sessUpdateSession(store, r.id, session)
            /\ lastResp' = Resp("chat", r.id, 200, "",
                                << parsedResponse >>)
            /\ lostUpdate' =
                   /\ r.id \in DOMAIN store
                   /\ store[r.id].doc # r.session[1]
                   /\ store[r.id].doc.order[1] \in PayloadOrders
                   /\ store[r.id].doc.order # session.order
    /\ UNCHANGED << notRedis, redis >>

\* generateContent rejects with an error of the given message
\* (server.js:435-441)
SessModelError(r, message) ==
    /\ variant = "sess"
    /\ r \in BagToSet(reqs)
    /\ r.pc = "model"
    /\ reqs' = Drop(reqs, r)
    /\ lastResp' = RespDetails("chat", r.id, 500,
                                "An error occurred while processing your request", message)
    /\ UNCHANGED << notRedis, store, redis, lostUpdate >>

SessHandlers ==
    \/ RedisConnect
    \/ RedisConnectFail
    \/ \E sessionId \in SessionIds : SessChat(sessionId)
    \/ \E r \in BagToSet(reqs), text \in ModelTexts : SessModelReply(r, text)
    \/ \E r \in BagToSet(reqs), message \in ErrorMessages : SessModelError(r, message)

NextSess ==
    \/ \E key \in DOMAIN store : Expire(key)
    \/ SessHandlers

SpecSess == InitSess /\ [][NextSess]_vars

\* both Redis-backed servers
InitRedisAny == InitUser \/ InitSess

NextRedis == NextUser \/ NextSess

SpecRedis == InitRedisAny /\ [][NextRedis]_vars

\* both Redis-backed servers with the lifetime of the keys counted down
NextTtl ==
    \/ Tick(Elapse)
    \/ UserHandlers
    \/ SessHandlers

SpecTtl == InitRedisAny /\ [][NextTtl]_vars

\* the three servers
InitServers == InitMem \/ InitRedisAny

NextServers == NextMem \/ NextRedis

SpecServers == InitServers /\ [][NextServers]_vars

\* the session a key holds, as a handler reads it
StoredSession(st, id) ==
    IF variant = "user" THEN st[id].doc.data ELSE st[id].doc

\* --------------------------------------- findMenuItem on its own ("find")
\* Longest query, in tokens.
MaxQueryLen == 2

\* Words a query is made of: words of menu names, in either case, and a word
\* of no menu name.
QueryWords == {"Jollof", "rice", "Fried", "Plantain", "chapman", "Zobo", "Drink", "special"}

RECURSIVE SeqsUpTo(_, _)
SeqsUpTo(S, n) ==
    IF n = 0 THEN {<< >>}
    ELSE LET shorter == SeqsUpTo(S, n - 1)
         IN  shorter \cup {Append(q, w) : q \in shorter, w \in S}

Queries == SeqsUpTo(QueryWords, MaxQueryLen) \ {<< >>}

InitFind ==
    /\ variant = "find"
    /\ sessions = {}
    /\ heap = EmptyHeap
    /\ completedOrders = << >>
    /\ inflight = << >>
    /\ uuid = 0
    /\ lastResp = NoResp
    /\ currentOrder = EmptyDraft
    /\ cliPending = 0
    /\ finalOrder = << >>
    /\ store = << >>
    /\ redis = "unset"
    /\ reqs = EmptyBag
    /\ lostUpdate = FALSE
    /\ client = << >>
    /\ net = {}
    /\ call \in [name : Queries]
    /\ result = [fn |-> "none", item |-> 0]

\* findMenuItem(name) of the server; item is the position in MENU, 0 for null
FindServer ==
    /\ variant = "find"
    /\ result' = [fn |-> "index.js", item |-> findMenuItem(call.name)]
    /\ UNCHANGED << notFn, call >>

\* findMenuItem(itemName) of the demo; item is the position in CliMENU
FindDemo ==
    /\ variant = "find"
    /\ result' = [fn |-> "part_000", item |-> cliFindMenuItem(call.name)]
    /\ UNCHANGED << notFn, call >>

NextFind == FindServer \/ FindDemo

SpecFind == InitFind /\ [][NextFind]_vars

\* --------------------- one chat turn of index.js on its own ("turn")
\* Most parts (directives and pieces of prose) in the model's text.
MaxParts == 3

\* The parts a text is made of: prose, and directives of each kind.
Parts ==
    { << "Certainly" >>,
      << "ORDER_ADD:", "Chapman", "|QUANTITY:", "2" >>,
      << "ORDER_ADD:", "Pizza", "|QUANTITY:", "1" >>,
      << "ORDER_ADD:", "Jollof", "Rice", "|QUANTITY:", "1" >>,
      << "ORDER_REMOVE:", "Chapman" >>,
      << "ORDER_REMOVE:", "Jollof", "Rice" >>,
      << "ORDER_UPDATE:", "Chapman", "|QUANTITY:", "1" >> }

\* The texts of earlier turns that built the order the turn starts from.
FirstTexts ==
    { << >>,
      << << "ORDER_ADD:", "Chapman", "|QUANTITY:", "2" >> >>,
      << << "ORDER_ADD:", "Chapman", "|QUANTITY:", "2" >>,
         << "ORDER_ADD:", "Jollof", "Rice", "|QUANTITY:", "1" >> >> }

\* The text made of the parts, in order.
RECURSIVE Flatten(_)
Flatten(parts) == IF parts = << >> THEN << >> ELSE Head(parts) \o Flatten(Tail(parts))

\* index.js:371-392: what POST /api/chat does with the model's text for a
\* session whose order is h.so[sid], and what it answers
ChatTurn(h, aiContent, sid) ==
    LET h1 == processOrderInstructions(h, aiContent, sid)
    IN  [status |-> 200,
         response |-> cleanResponse(aiContent),
         currentOrder |-> OrderJson(h1, h1.so[sid])]

\* The heap after the earlier turns of a new session 1.
HeapAfter(first) ==
    processOrderInstructions(createNewSession(EmptyHeap, 1), Flatten(first), 1)

InitTurn ==
    /\ variant = "turn"
    /\ sessions = {}
    /\ heap = EmptyHeap
    /\ completedOrders = << >>
    /\ inflight = << >>
    /\ uuid = 0
    /\ lastResp = NoResp
    /\ currentOrder = EmptyDraft
    /\ cliPending = 0
    /\ finalOrder = << >>
    /\ store = << >>
    /\ redis = "unset"
    /\ reqs = EmptyBag
    /\ lostUpdate = FALSE
    /\ client = << >>
    /\ net = {}
    /\ call \in [first : FirstTexts, parts : SeqsUpTo(Parts, MaxParts)]
    /\ result = [status |-> 0, response |-> << >>,
                 currentOrder |-> [items |-> << >>, totalCost |-> 0]]

\* the turn runs on the text
Turn ==
    /\ variant = "turn"
    /\ result' = ChatTurn(HeapAfter(call.first), Flatten(call.parts), 1)
    /\ UNCHANGED << notFn, call >>

NextTurn == Turn

SpecTurn == InitTurn /\ [][NextTurn]_vars

\* ------------- the browser client (client/src/store/useOrderStore.js) and
\* ------------- the userId server it talks to (server/server.js:1-192)
\* A client is one browser: its localStorage and the zustand store of the page
\* that is open in it.  Messages are modelled by their kind.  A fetch is
\* followed from the call to the continuation that settles it in the store;
\* the server handles a request in one step here (the interleavings of a
\* handler's own awaits are the subject of the "user" variant), or the fetch
\* fails without a handler having run: a network error or a response that is
\* not ok, which is also what a request gets whose path no route matches.

\* Calls of initializeSession, by all clients, that may reach the fetch.
MaxGets == 2
\* Messages the clients may send.
MaxTurns == 1
\* Calls of clearSession (each takes a fresh userId).
MaxClears == 1
\* Page reloads of the clients.
MaxReloads == 1

\* useOrderStore.js:8, the userId of a client whose localStorage has none
DefaultUserId == "12345"

\* useOrderStore.js:125, the n-th id Math.random gives
NewUserIds == << "user_1", "user_2", "user_3", "user_4" >>

\* obj.name: undefined when the object has no such property
Prop(obj, name) == IF name \in DOMAIN obj THEN obj[name] ELSE Undefined

\* value || fallback, for a value that is an object or undefined
OrElse(value, fallback) == IF value = Undefined THEN fallback ELSE value[1]

\* useOrderStore.js:6-10
getUserId(storage) == OrElse(storage, DefaultUserId)

\* no clearSession call was made yet
NoClear == [state |-> "no", userId |-> NoId]

\* useOrderStore.js:12-25, the store a page creates; used is history (the
\* get-session requests, messages and reloads this browser has made so far),
\* gets is history too: the userIds get-session was requested for by this
\* store, and cleared is the last clearSession call: the userId it generated
\* and whether the promise it returned is pending, resolved or rejected
NewStore(storage, used) ==
    [storage |-> storage,
     userId |-> getUserId(storage),
     messages |-> << >>,
     currentOrder |-> EmptyOrder,
     context |-> EmptyContext,
     isLoading |-> FALSE,
     isInitialized |-> FALSE,
     error |-> Undefined,
     gets |-> << >>,
     cleared |-> NoClear,
     used |-> used]

NoneUsed == [gets |-> 0, turns |-> 0, reloads |-> 0]

RECURSIVE Used(_, _)
\* what the clients cs have used of a budget, together
Used(cs, budget) ==
    IF cs = {} THEN 0
    ELSE LET c == CHOOSE x \in cs : TRUE IN
         client[c].used[budget] + Used(cs \ {c}, budget)

\* a fetch call: n tells the calls of one client apart, clear says that the
\* initializeSession call which made it was the one clearSession returned
Fetch(c, kind, n, userId, clear) ==
    [c |-> c, kind |-> kind, n |-> n, userId |-> userId, clear |-> clear,
     phase |-> "sent", data |-> Undefined]

FetchesOf(c) == {f \in net : f.c = c}

InitApp(clients) ==
    /\ variant = "app"
    /\ sessions = {}
    /\ heap = EmptyHeap
    /\ completedOrders = << >>
    /\ inflight = << >>
    /\ uuid = 0
    /\ currentOrder = EmptyDraft
    /\ cliPending = 0
    /\ finalOrder = << >>
    /\ store = << >>
    /\ redis = "ready"
    /\ reqs = EmptyBag
    /\ lostUpdate = FALSE
    /\ client = [c \in clients |-> NewStore(Undefined, NoneUsed)]
    /\ net = {}
    /\ call = << >>
    /\ result = << >>
    /\ lastResp = RedisNoResp

\* useOrderStore.js:32-38, initializeSession from the set call to the fetch
startInitialize(st, c, clear) ==
    [st EXCEPT !.isLoading = TRUE,
               !.error = Undefined,
               !.gets = Append(@, st.userId),
               !.used.gets = @ + 1]

\* useOrderStore.js:28-38, a call of initializeSession by the page
\* (part_001:35-40 and :180) that passes the isInitialized test
InitializeSession(c) ==
    /\ variant = "app"
    /\ ~client[c].isInitialized
    /\ Used(DOMAIN client, "gets") < MaxGets
    /\ client' = [client EXCEPT ![c] = startInitialize(@, c, FALSE)]
    /\ net' = net \cup {Fetch(c, "get", client[c].used.gets, client[c].userId, FALSE)}
    /\ UNCHANGED << notApp, store, uuid >>

\* server.js:121-128 with getUserSession (158-179), the body of the response
GetSessionBody(session) == [order |-> session.order, context |-> session.context]

\* server.js:158-179, getUserSession: the session and the store it leaves
getUserSession(st, userId) ==
    LET userSession == redisGet(st, userId) IN
    IF userSession = Undefined
    THEN [session |-> FreshSession, store |-> getUserSessionCreate(st, userId)]
    ELSE [session |-> userSession[1].data, store |-> st]

\* server.js:121-128, GET /get-session answers a client's fetch
ServerGetSession(f) ==
    /\ variant = "app"
    /\ f.kind = "get"
    /\ f.phase = "sent"
    /\ LET got == getUserSession(store, f.userId) IN
       /\ store' = got.store
       /\ net' = (net \ {f}) \cup
                 {[f EXCEPT !.phase = "ok", !.data = << GetSessionBody(got.session) >>]}
    /\ UNCHANGED << notApp, client, uuid >>

\* server.js:105-108, the body of a successful chat response
ChatBody(response, userId) ==
    [currentOrder |-> response.currentOrder, context |-> response.context,
     sessionId |-> userId]

\* server.js:32-118, POST /chat answers a client's fetch; text is the model's
ServerChat(f, text) ==
    /\ variant = "app"
    /\ f.kind = "chat"
    /\ f.phase = "sent"
    /\ LET got == getUserSession(store, f.userId)
           response == JSONparse(text) IN
       IF response = Undefined
       THEN /\ store' = got.store
            /\ net' = (net \ {f}) \cup {[f EXCEPT !.phase = "fail"]}
       ELSE /\ store' = updateSession(got.store, f.userId,
                                      UserNewSession(got.session, response[1]))
            /\ net' = (net \ {f}) \cup
                      {[f EXCEPT !.phase = "ok",
                                 !.data = << ChatBody(response[1], f.userId) >>]}
    /\ UNCHANGED << notApp, client, uuid >>

\* fetch rejects, or resolves with a response that is not ok
\* (useOrderStore.js:40 and :87)
FetchFail(f) ==
    /\ variant = "app"
    /\ f.phase = "sent"
    /\ net' = (net \ {f}) \cup {[f EXCEPT !.phase = "fail"]}
    /\ UNCHANGED << notApp, client, store, uuid >>

\* how the promise of the last clearSession call stands once the
\* initializeSession call that made fetch f has settled
settleClear(st, f, state) ==
    IF f.clear /\ st.cleared.state = "pending" /\ st.cleared.userId = f.userId
    THEN [st.cleared EXCEPT !.state = state]
    ELSE st.cleared

\* useOrderStore.js:40-65, initializeSession after its fetch has settled
InitContinue(f) ==
    /\ variant = "app"
    /\ f.kind = "get"
    /\ f.phase \in {"ok", "fail"}
    /\ net' = net \ {f}
    /\ client' = [client EXCEPT ![f.c] =
         IF f.phase = "ok"
         THEN [@ EXCEPT !.messages = << "welcome" >>,
                        !.currentOrder =
                            OrElse(Prop(f.data[1], "currentOrder"), EmptyOrder),
                        !.context = OrElse(Prop(f.data[1], "context"), @),
                        !.isInitialized = TRUE,
                        !.isLoading = FALSE,
                        !.cleared = settleClear(client[f.c], f, "resolved")]
         ELSE [@ EXCEPT !.error = << "Failed to start session" >>,
                        !.messages = Append(@, "init-failed"),
                        !.isLoading = FALSE,
                        !.cleared = settleClear(client[f.c], f, "rejected")]]
    /\ UNCHANGED << notApp, store, uuid >>

\* useOrderStore.js:68-85, sendMessage up to its fetch
SendMessage(c) ==
    /\ variant = "app"
    /\ Used(DOMAIN client, "turns") < MaxTurns
    /\ client' = [client EXCEPT ![c] =
         [@ EXCEPT !.isLoading = TRUE,
                   !.error = Undefined,
                   !.messages = Append(@, "user"),
                   !.used.turns = @ + 1]]
    /\ net' = net \cup {Fetch(c, "chat", client[c].used.turns, client[c].userId, FALSE)}
    /\ UNCHANGED << notApp, store, uuid >>

\* useOrderStore.js:87-109, sendMessage after its fetch has settled
ChatContinue(f) ==
    /\ variant = "app"
    /\ f.kind = "chat"
    /\ f.phase \in {"ok", "fail"}
    /\ net' = net \ {f}
    /\ client' = [client EXCEPT ![f.c] =
         IF f.phase = "ok"
         THEN [@ EXCEPT !.messages = Append(@, "assistant"),
                        !.currentOrder =
                            OrElse(Prop(f.data[1], "currentOrder"), @),
                        !.context = OrElse(Prop(f.data[1], "context"), @),
                        !.isLoading = FALSE]
         ELSE [@ EXCEPT !.error = << "Failed to send message" >>,
                        !.messages = Append(@, "send-failed"),
                        !.isLoading = FALSE]]
    /\ UNCHANGED << notApp, store, uuid >>

\* useOrderStore.js:122-142, clearSession with the synchronous part of the
\* initializeSession call it returns (28-38)
ClearSession(c) ==
    /\ variant = "app"
    /\ uuid < MaxClears
    /\ client[c].isInitialized \/ Used(DOMAIN client, "gets") < MaxGets
    /\ LET newUserId == NewUserIds[uuid + 1]
           cleared == [client[c] EXCEPT !.storage = << newUserId >>,
                                        !.messages = << >>,
                                        !.currentOrder = EmptyOrder,
                                        !.userId = newUserId,
                                        !.context = EmptyContext] IN
       IF cleared.isInitialized
       THEN /\ client' = [client EXCEPT ![c] =
                 [cleared EXCEPT !.cleared =
                     [state |-> "resolved", userId |-> newUserId]]]
            /\ net' = net
       ELSE /\ client' = [client EXCEPT ![c] =
                 [startInitialize(cleared, c, TRUE) EXCEPT !.cleared =
                     [state |-> "pending", userId |-> newUserId]]]
            /\ net' = net \cup
                 {Fetch(c, "get", client[c].used.gets, newUserId, TRUE)}
    /\ uuid' = uuid + 1
    /\ UNCHANGED << notApp, store >>

\* the page is reloaded: the pending fetches of the old page are abandoned
\* and the module creates the store again (useOrderStore.js:12-25)
Reload(c) ==
    /\ variant = "app"
    /\ Used(DOMAIN client, "reloads") < MaxReloads
    /\ client' = [client EXCEPT ![c] =
                     NewStore(@.storage, [@.used EXCEPT !.reloads = @ + 1])]
    /\ net' = net \ FetchesOf(c)
    /\ UNCHANGED << notApp, store, uuid >>

NextApp ==
    \/ \E c \in DOMAIN client : InitializeSession(c)
    \/ \E c \in DOMAIN client : SendMessage(c)
    \/ \E c \in DOMAIN client : ClearSession(c)
    \/ \E c \in DOMAIN client : Reload(c)
    \/ \E f \in net : ServerGetSession(f)
    \/ \E f \in net, text \in ModelTexts : ServerChat(f, text)
    \/ \E f \in net : FetchFail(f)
    \/ \E f \in net : InitContinue(f)
    \/ \E f \in net : ChatContinue(f)

\* one browser
SpecApp == InitApp({"a"}) /\ [][NextApp]_vars

\* two browsers
SpecApp2 == InitApp({"a", "b"}) /\ [][NextApp]_vars

\* ================================================================ claims
\* Items and quantities the operations are tried with on every reachable order.
AddItems == {1, 8}

AddQuantities == 1..MaxQty

\* The lines of items whose id is not itemId, in order.
Without(items, itemId) == SelectSeq(items, LAMBDA l : l.id # itemId)

\* Number of lines of items with that id.
CountLines(items, itemId) == Cardinality({i \in 1..Len(items) : items[i].id = itemId})

HasLine(items, itemId) == CountLines(items, itemId) > 0

\* C1: in the in-memory server the totalCost of every session's currentOrder
\* equals the sum of price*quantity over the lines currently in its items,
\* after any sequence of adds, removes and updates made through directives
\* or through PUT /order/:sessionId/item/:itemId.
C1_TotalIsSum ==
    variant = "mem" =>
        \A s \in DOMAIN heap.so :
            heap.so[s].totalCost = calculateTotal(Deref(heap, heap.so[s].items))

\* C1 witness: a PUT has just set a quantity in an order of two lines.
C1_Witness ==
    /\ variant = "mem"
    /\ lastResp.op = "put" /\ lastResp.status = 200
    /\ \E s \in sessions :
           /\ Len(heap.arrs[heap.so[s].items]) = 2
           /\ heap.so[s].totalCost > 0

\* C2: removeItemFromOrder(itemId) deletes exactly the line whose id is
\* itemId and leaves every other line unchanged; when no line has that id the
\* order (items and totalCost) is unchanged.
C2_RemoveExact ==
    variant = "mem" =>
        \A s \in sessions, itemId \in PutItemIds :
            LET before == OrderJson(heap, heap.so[s])
                h1     == removeItemFromOrder(heap, itemId, s)
                after  == OrderJson(h1, h1.so[s])
            IN  /\ after.items = Without(before.items, itemId)
                /\ ~HasLine(before.items, itemId) => after = before

\* C3: updateItemInOrder(itemId, q) sets the quantity of the line with that
\* id to exactly q when q > 0; when q <= 0 the line is gone afterwards and all
\* other lines remain; when no line has that id the order is unchanged.
C3_UpdateExact ==
    variant = "mem" =>
        \A s \in sessions, itemId \in PutItemIds, q \in PutQuantities :
            LET before == OrderJson(heap, heap.so[s])
                h1     == updateItemInOrder(heap, itemId, q, s)
                after  == OrderJson(h1, h1.so[s])
                i      == cliFindLine(before.items, itemId, 1)
            IN  IF i = 0 THEN after = before
                ELSE IF q > 0 THEN after.items = [before.items EXCEPT ![i].quantity = q]
                ELSE after.items = Without(before.items, itemId)

\* C4: every reachable order of the text-embedded variants holds at most one
\* line per item id, and adding quantity a and then b of one item (a, b > 0)
\* yields a single line for it whose quantity grew by a+b, the same order as
\* adding b and then a.
C4_OneLinePerItem ==
    /\ variant = "mem" =>
        \A s \in DOMAIN heap.so :
            LET items == Deref(heap, heap.so[s].items)
            IN  /\ \A i, j \in 1..Len(items) : items[i].id = items[j].id => i = j
                /\ \A k \in AddItems, a, b \in AddQuantities :
                       LET hab == addItemToOrder(addItemToOrder(heap, MENU[k], a, s), MENU[k], b, s)
                           hba == addItemToOrder(addItemToOrder(heap, MENU[k], b, s), MENU[k], a, s)
                           ab  == OrderJson(hab, hab.so[s])
                           old == cliFindLine(items, MENU[k].id, 1)
                           new == cliFindLine(ab.items, MENU[k].id, 1)
                       IN  /\ ab = OrderJson(hba, hba.so[s])
                           /\ CountLines(ab.items, MENU[k].id) = 1
                           /\ ab.items[new].quantity =
                                  (IF old = 0 THEN 0 ELSE items[old].quantity) + a + b
    /\ variant = "cli" =>
        /\ \A i, j \in 1..Len(currentOrder.items) :
               currentOrder.items[i].id = currentOrder.items[j].id => i = j
        /\ \A k \in AddItems, a, b \in AddQuantities :
               LET m   == CliMENU[cliFindMenuItem(MENU[k].name)]
                   ab  == cliAddItemToOrder(cliAddItemToOrder(currentOrder, m, a), m, b)
                   ba  == cliAddItemToOrder(cliAddItemToOrder(currentOrder, m, b), m, a)
                   old == cliFindLine(currentOrder.items, m.id, 1)
                   new == cliFindLine(ab.items, m.id, 1)
               IN  /\ ab = ba
                   /\ CountLines(ab.items, m.id) = 1
                   /\ ab.items[new].quantity =
                          (IF old = 0 THEN 0 ELSE currentOrder.items[old].quantity) + a + b

\* C4 witness: the demo's order is one Jollof Rice line of quantity 2, which
\* only two merged ORDER_ADD directives of quantity 1 can produce.
C4_Witness ==
    /\ variant = "cli"
    /\ Len(currentOrder.items) = 1
    /\ currentOrder.items[1].id = "jollof_rice"
    /\ currentOrder.items[1].quantity = 2

\* C5: finalizing an order that has at least one line produces a completed
\* order whose items and totalCost are those of the order just before, with
\* a fresh id, a timestamp and status 'confirmed'; afterwards the session is
\* gone from the Map (server) or the live order is an empty draft (demo).
C5_FinalizeSnapshot ==
    [][ /\ ( /\ variant = "mem"
             /\ lastResp'.op = "complete"
             /\ lastResp'.sid \in sessions
             /\ Len(heap.arrs[heap.so[lastResp'.sid].items]) > 0 )
           => /\ lastResp'.status = 200
              /\ uuid' > uuid
              /\ DOMAIN completedOrders' = DOMAIN completedOrders \cup {uuid'}
              /\ uuid' \notin DOMAIN completedOrders
              /\ completedOrders'[uuid'].id = uuid'
              /\ completedOrders'[uuid'].status = "confirmed"
              /\ completedOrders'[uuid'].timestamp = "iso"
              /\ OrderJson(heap', completedOrders'[uuid'])
                     = OrderJson(heap, heap.so[lastResp'.sid])
              /\ sessions' = sessions \ {lastResp'.sid}
        /\ ( /\ variant = "cli"
             /\ lastResp'.op = "completeOrder"
             /\ Len(currentOrder.items) > 0 )
           => /\ lastResp'.status = 200
              /\ Len(finalOrder') = 1
              /\ finalOrder'[1].items = currentOrder.items
              /\ finalOrder'[1].totalCost = currentOrder.totalCost
              /\ uuid' > uuid
              /\ finalOrder'[1].id = uuid'
              /\ finalOrder'[1].status = "confirmed"
              /\ finalOrder'[1].timestamp = "iso"
              /\ currentOrder' = EmptyDraft
      ]_vars

\* C5 witness: the server holds a completed order.
C5_Witness ==
    /\ variant = "mem"
    /\ lastResp.op = "complete" /\ lastResp.status = 200
    /\ DOMAIN completedOrders # {}

\* C6: finalizing an order with no lines fails (400 in the server, null in
\* the demo) and changes nothing: the order, the session and the completed
\* orders are as before the call.
C6_FinalizeEmptyFails ==
    [][ /\ ( /\ variant = "mem"
             /\ lastResp'.op = "complete"
             /\ lastResp'.sid \in sessions
             /\ Len(heap.arrs[heap.so[lastResp'.sid].items]) = 0 )
           => /\ lastResp'.status = 400
              /\ UNCHANGED << memVars, uuid >>
        /\ ( /\ variant = "cli"
             /\ lastResp'.op = "completeOrder"
             /\ Len(currentOrder.items) = 0 )
           => /\ lastResp'.status = 400
              /\ finalOrder' = << >>
              /\ UNCHANGED << currentOrder, cliPending, uuid >>
      ]_vars

\* C6 witness: the demo's completeOrder has just returned null while a call
\* was still awaiting the model.
C6_Witness ==
    /\ variant = "cli"
    /\ lastResp.op = "completeOrder" /\ lastResp.status = 400
    /\ cliPending > 0

\* C7: a completed order never changes once POST /order/:sessionId/complete
\* has stored it: its items (with each line's quantity) and its totalCost
\* stay as they were under every later step.
C7_CompletedImmutable ==
    [][ \A o \in DOMAIN completedOrders :
            /\ o \in DOMAIN completedOrders'
            /\ OrderJson(heap', completedOrders'[o]) = OrderJson(heap, completedOrders[o])
      ]_vars

\* C8: in the userId server a chat turn that answers 200 leaves in the store
\* exactly the session built from its own payload, whatever the key held when
\* updateSession ran: the last writer wins and no conflict is reported, so a
\* turn that overlapped it and wrote first is lost (the witness).
C8_LastWriterWins ==
    [][(\A r \in BagToSet(reqs) :
          (/\ variant = "user"
           /\ r.pc = "model"
           /\ reqs' = Drop(reqs, r)
           /\ lastResp'.status = 200)
          => /\ r.id \in DOMAIN store'
             /\ store'[r.id].doc.data = UserNewSession(r.session[1], lastResp'.body[1]))]_vars

C8_Witness ==
    /\ variant = "user"
    /\ lostUpdate
    /\ reqs = EmptyBag
    /\ lastResp.op = "chat"
    /\ lastResp.status = 200
    /\ lastResp.sid \in DOMAIN store
    /\ store[lastResp.sid].doc.data.order = lastResp.body[1].currentOrder

\* C9: the session lookup never fails and never yields nothing for an
\* identifier the caller supplied; when the key holds no record, a fresh session
\* is written under it and is the one the handler goes on with.
C9_LookupNeverFails ==
    [][(variant \in {"user", "sess"} =>
          /\ ~(lastResp'.sid # NoId /\ lastResp'.details = << "Session not found" >>)
          /\ \A r \in BagToSet(reqs') : r.pc = "model" => r.session # Undefined
          /\ \A r \in BagToSet(reqs') \ BagToSet(reqs) :
                (r.pc = "model" /\ r.id \notin DOMAIN store)
                => /\ r.session = << FreshSession >>
                   /\ r.id \in DOMAIN store'
                   /\ StoredSession(store', r.id) = FreshSession)]_vars

\* C10 as stated: after two consecutive successful chat turns of one session
\* whose payloads each carry a currentOrder (the second turn loaded the session
\* as the first left it), the stored order is the second payload's
\* currentOrder and the stored context is the second payload's context.
C10_ReplaceExact ==
    [][(\A r \in BagToSet(reqs) :
          (/\ variant \in {"user", "sess"}
           /\ r.pc = "model"
           /\ reqs' = Drop(reqs, r)
           /\ lastResp'.status = 200
           /\ lastResp'.follows
           /\ r.id \in DOMAIN store
           /\ StoredSession(store, r.id) = r.session[1]
           /\ lastResp'.body[1].currentOrder # Undefined)
          => /\ r.id \in DOMAIN store'
             /\ StoredSession(store', r.id).order = lastResp'.body[1].currentOrder
             /\ StoredSession(store', r.id).context = lastResp'.body[1].context)]_vars

\* C10 amended: after two such turns the stored order is the second payload's
\* currentOrder; the stored context is the second payload's context when the
\* payload carries one; when it carries none, the userId server stores none
\* and the sessionId server keeps the context the turn had loaded.
C10_ReplaceExactAmended ==
    [][(\A r \in BagToSet(reqs) :
          (/\ variant \in {"user", "sess"}
           /\ r.pc = "model"
           /\ reqs' = Drop(reqs, r)
           /\ lastResp'.status = 200
           /\ lastResp'.follows
           /\ r.id \in DOMAIN store
           /\ StoredSession(store, r.id) = r.session[1]
           /\ lastResp'.body[1].currentOrder # Undefined)
          => /\ r.id \in DOMAIN store'
             /\ StoredSession(store', r.id).order = lastResp'.body[1].currentOrder
             /\ StoredSession(store', r.id).context =
                   IF variant = "sess" /\ lastResp'.body[1].context = Undefined
                   THEN r.session[1].context
                   ELSE lastResp'.body[1].context)]_vars

C10_Witness ==
    /\ variant = "sess"
    /\ lastResp.op = "chat"
    /\ lastResp.status = 200
    /\ lastResp.follows
    /\ lastResp.body[1].currentOrder # Undefined
    /\ lastResp.body[1].context = Undefined
    /\ lastResp.sid \in DOMAIN store
    /\ store[lastResp.sid].doc.order = lastResp.body[1].currentOrder
    /\ store[lastResp.sid].doc.context # << EmptyContext >>

\* C11: in the Redis servers, when the model's text is not valid JSON the
\* turn ends with status 500, the turn is over (no request of it is left to
\* call the model again) and the step writes nothing: every key of the store
\* holds what it held. Before that step the turn has written nothing but,
\* for a key that was absent, the empty session: a key that appears in a step
\* other than a successful turn's holds the empty order and context.
C11_BadJsonKeepsSession ==
    [][(/\ \A r \in BagToSet(reqs), text \in ModelTexts :
             (/\ ~text.json
              /\ UserModelReply(r, text) \/ SessModelReply(r, text))
             => /\ lastResp'.op = "chat"
                /\ lastResp'.sid = r.id
                /\ lastResp'.status = 500
                /\ lastResp'.body = Undefined
                /\ reqs' = Drop(reqs, r)
                /\ store' = store
        /\ variant \in {"user", "sess"} =>
             \A k \in DOMAIN store' \ DOMAIN store :
                \/ lastResp'.op = "chat" /\ lastResp'.status = 200 /\ lastResp'.sid = k
                \/ StoredSession(store', k) = FreshSession)]_vars

\* C11 witness: a turn of the sessionId server has just failed on its text
\* while the key holds the order an earlier turn saved.
C11_Witness ==
    /\ variant = "sess"
    /\ lastResp.status = 500
    /\ lastResp.error = "Failed to process AI response"
    /\ lastResp.sid \in DOMAIN store
    /\ store[lastResp.sid].doc.order[1] \in PayloadOrders

\* The catalog a findMenuItem result refers to.
MenuOf(fn) == IF fn = "index.js" THEN MENU ELSE CliMENU

\* Positions of the items whose name equals the query, ignoring case.
ExactMatches(menu, q) ==
    {k \in 1..Len(menu) : toLowerCase(menu[k].name) = toLowerCase(q)}

\* Positions of the items whose name contains the query or is contained in it.
SubstringMatches(menu, q) ==
    {k \in 1..Len(menu) :
        \/ Includes(toLowerCase(menu[k].name), toLowerCase(q))
        \/ Includes(toLowerCase(q), toLowerCase(menu[k].name))}

\* Positions of the items whose name starts with the first token of the query.
FirstTokenMatches(menu, q) ==
    {k \in 1..Len(menu) : toLowerCaseTok(menu[k].name[1]) = toLowerCaseTok(q[1])}

Min(S) == CHOOSE k \in S : \A j \in S : k <= j

\* C12: whenever the query equals some item's name ignoring case, findMenuItem
\* (of the server and of the demo) returns that item, whatever items precede
\* it in the catalog.
C12_ExactMatchWins ==
    (variant = "find" /\ result.fn # "none") =>
        \A k \in ExactMatches(MenuOf(result.fn), call.name) : result.item = k

\* C13: when the query has no exact match but substring-matches several
\* items, findMenuItem of the server returns the first of them in catalog
\* order.
C13_FirstSubstringMatch ==
    (/\ variant = "find"
     /\ result.fn = "index.js"
     /\ ExactMatches(MENU, call.name) = {}
     /\ Cardinality(SubstringMatches(MENU, call.name)) > 1)
    => result.item = Min(SubstringMatches(MENU, call.name))

\* C14: when the query matches no item exactly or by substring but its first
\* token is the first token of some item's name, findMenuItem (of the server
\* and of the demo) returns the first such item in catalog order.
C14_FirstTokenFallback ==
    (/\ variant = "find"
     /\ result.fn # "none"
     /\ ExactMatches(MenuOf(result.fn), call.name) = {}
     /\ SubstringMatches(MenuOf(result.fn), call.name) = {}
     /\ FirstTokenMatches(MenuOf(result.fn), call.name) # {})
    => result.item = Min(FirstTokenMatches(MenuOf(result.fn), call.name))

\* The matches of one directive pattern whose captured name resolves to an item.
Resolved(text, kw) ==
    SelectSeq(MatchAll(text, kw, 1),
              LAMBDA m : findMenuItem(CapturedName(text, kw, m)) # 0)

\* The operation of each match applied to the order, in the order of ms.
RECURSIVE ApplyResolved(_, _, _, _, _)
ApplyResolved(h, text, kw, ms, sid) ==
    IF ms = << >> THEN h
    ELSE LET menuItem == MENU[findMenuItem(CapturedName(text, kw, Head(ms)))]
             h1 == IF kw = "ORDER_ADD:"
                   THEN addItemToOrder(h, menuItem, CapturedQuantity(text, Head(ms)), sid)
                   ELSE IF kw = "ORDER_REMOVE:"
                        THEN removeItemFromOrder(h, menuItem.id, sid)
                   ELSE updateItemInOrder(h, menuItem.id, CapturedQuantity(text, Head(ms)), sid)
         IN  ApplyResolved(h1, text, kw, Tail(ms), sid)

\* The order of session 1 as the client sees it.
OrderOf(h) == OrderJson(h, h.so[1])

\* C15: a directive whose name resolves to no menu item is skipped: the order
\* after the turn is the one the other directives of the text produce, and
\* the turn answers with status 200.
C15_UnknownItemSkipped ==
    (variant = "turn" /\ result.status # 0) =>
        LET text == Flatten(call.parts)
            h1 == ApplyResolved(HeapAfter(call.first), text, "ORDER_ADD:",
                                Resolved(text, "ORDER_ADD:"), 1)
            h2 == ApplyResolved(h1, text, "ORDER_REMOVE:",
                                Resolved(text, "ORDER_REMOVE:"), 1)
            h3 == ApplyResolved(h2, text, "ORDER_UPDATE:",
                                Resolved(text, "ORDER_UPDATE:"), 1)
        IN  /\ result.status = 200
            /\ result.currentOrder = OrderOf(h3)

\* C15 witness: the text named Pizza and then two Chapman; the order the turn
\* answers with holds the two Chapman.
C15_Witness ==
    /\ variant = "turn"
    /\ call.first = << >>
    /\ call.parts = << << "ORDER_ADD:", "Pizza", "|QUANTITY:", "1" >>,
                       << "ORDER_ADD:", "Chapman", "|QUANTITY:", "2" >> >>
    /\ result.status = 200
    /\ Len(result.currentOrder.items) = 1
    /\ result.currentOrder.items[1].id = "chapman"
    /\ result.currentOrder.items[1].quantity = 2

\* The directives of a text, each as a text of its own, by kind.
Directives(text, kw) ==
    LET ms == MatchAll(text, kw, 1)
    IN  [i \in 1..Len(ms) |-> SubSeq(text, ms[i].from, ms[i].to)]

\* The directives applied one after the other, each as a turn's whole text.
RECURSIVE OneByOne(_, _)
OneByOne(h, ds) ==
    IF ds = << >> THEN h
    ELSE OneByOne(processOrderInstructions(h, Head(ds), 1), Tail(ds))

\* C16: the order after a turn is the one obtained by applying the text's
\* ORDER_ADD directives in their textual order, then its ORDER_REMOVE
\* directives in theirs, then its ORDER_UPDATE directives in theirs, wherever
\* they stand in the text.
C16_AddRemoveUpdate ==
    (variant = "turn" /\ result.status # 0) =>
        LET text == Flatten(call.parts)
        IN  result.currentOrder =
                OrderOf(OneByOne(HeapAfter(call.first),
                                 Directives(text, "ORDER_ADD:")
                                 \o Directives(text, "ORDER_REMOVE:")
                                 \o Directives(text, "ORDER_UPDATE:")))

\* C16 witness: the text updates Chapman to 1 and then adds two Chapman to an
\* empty order; the add was applied first, so the line has quantity 1.
C16_Witness ==
    /\ variant = "turn"
    /\ call.first = << >>
    /\ call.parts = << << "ORDER_UPDATE:", "Chapman", "|QUANTITY:", "1" >>,
                       << "ORDER_ADD:", "Chapman", "|QUANTITY:", "2" >> >>
    /\ result.status = 200
    /\ Len(result.currentOrder.items) = 1
    /\ result.currentOrder.items[1].quantity = 1

\* The ways to reorder n parts.
Perms(n) == {f \in [1..n -> 1..n] : \A i, j \in 1..n : f[i] = f[j] => i = j}

\* The lines of an order, whatever their position.
LineSet(order) == {order.items[i] : i \in 1..Len(order.items)}

\* C17: the order after a turn does not depend on the textual order of the
\* directives: a text made of the same parts in any other order gives the
\* same lines, quantities and totalCost.
C17_OrderIrrelevant ==
    (variant = "turn" /\ result.status # 0) =>
        \A f \in Perms(Len(call.parts)) :
            LET other == ChatTurn(HeapAfter(call.first),
                                  Flatten([i \in 1..Len(call.parts) |-> call.parts[f[i]]]),
                                  1).currentOrder
            IN  /\ LineSet(other) = LineSet(result.currentOrder)
                /\ Len(other.items) = Len(result.currentOrder.items)
                /\ other.totalCost = result.currentOrder.totalCost

\* The parts that are prose.
IsDirective(part) == Head(part) \in {"ORDER_ADD:", "ORDER_REMOVE:", "ORDER_UPDATE:"}

\* C18: the message of a turn is the model's text without its directives:
\* all the prose, in order, and nothing of a directive.
C18_MessageIsProse ==
    (variant = "turn" /\ result.status # 0) =>
        result.response = Flatten(SelectSeq(call.parts, LAMBDA part : ~IsDirective(part)))

\* Quantities that are not positive.
NonPositive == {0 - 1, 0}

\* The model texts whose only directive is an ORDER_ADD with QUANTITY:0.
ZeroAdds == {<< "ORDER_ADD:", "Chapman", "|QUANTITY:", "0" >>}

\* C19: addItemToOrder with a quantity <= 0 leaves the order as it is, and no
\* line of a reachable order has a quantity below 1. In the server, after
\* every step, no line is below 1 and the function called with 0 or -1 on
\* any session's order changes nothing. In the demo, where the function is
\* called with the \d+ of a directive only, a reply whose directive is an
\* ORDER_ADD with QUANTITY:0 leaves the order as it was, and after every step
\* no line is below 1.
C19_NoQuantityBelowOne ==
    [][(/\ variant = "mem" =>
            \A s \in DOMAIN heap'.so :
                /\ \A i \in 1..Len(heap'.arrs[heap'.so[s].items]) :
                       Deref(heap', heap'.so[s].items)[i].quantity >= 1
                /\ \A k \in AddItems, q \in NonPositive :
                       addItemToOrder(heap', MENU[k], q, s) = heap'
        /\ variant = "cli" =>
            /\ \A aiContent \in ZeroAdds :
                   CliReply(aiContent) => currentOrder' = currentOrder
            /\ \A i \in 1..Len(currentOrder'.items) :
                   currentOrder'.items[i].quantity >= 1)]_vars

\* The completed orders made from the order of session s (the name of an items
\* array starts with the id of the session it was created for).
CompletedFrom(done, s) == {o \in DOMAIN done : done[o].items[1] = s}

\* C20: at most one completed order, of status 'confirmed', is ever made from
\* the order of a session, and once it is made every complete request that
\* names the session is answered 404 and stores nothing, and every chat
\* request that names it is answered 400 and starts no turn.
C20_FinalizedOnce ==
    [][(variant = "mem" =>
          \A s \in DOMAIN inflight :
             /\ Cardinality(CompletedFrom(completedOrders', s)) <= 1
             /\ \A o \in CompletedFrom(completedOrders', s) :
                    completedOrders'[o].status = "confirmed"
             /\ CompletedFrom(completedOrders, s) # {} =>
                    /\ (lastResp'.op = "complete" /\ lastResp'.sid = s)
                       => /\ lastResp'.status = 404
                          /\ completedOrders' = completedOrders
                    /\ (/\ lastResp'.op = "chat"
                        /\ lastResp'.sid = s
                        /\ inflight'[s] >= inflight[s])
                       => /\ lastResp'.status = 400
                          /\ inflight' = inflight)]_vars

\* C20 witness: a complete request for a session whose order was completed
\* has just been answered 404.
C20_Witness ==
    /\ variant = "mem"
    /\ lastResp.op = "complete"
    /\ lastResp.status = 404
    /\ CompletedFrom(completedOrders, lastResp.sid) # {}

C22_NoUserIdNoEffect ==
    [][(variant = "user" =>
          /\ NoId \notin DOMAIN store'
          /\ \A r \in BagToSet(reqs') : (r.kind = "chat" /\ r.id = NoId) => r.pc # "model"
          /\ \A r \in BagToSet(reqs) :
                (r.kind = "chat" /\ r.id = NoId /\ reqs' = Drop(reqs, r))
                => /\ lastResp'.op = "chat"
                   /\ lastResp'.status = 400
                   /\ store' = store
          /\ \A history \in BOOLEAN :
                (redis = "ready" /\ UserChat(NoId, history) /\ reqs' = reqs)
                => /\ lastResp'.status = 400
                   /\ store' = store)]_vars

\* C23: when the model call of a chat turn of the in-memory server fails, the
\* answer has status 429 for a rate-limit error, 401 for an authentication
\* error and 500 otherwise, with the fixed text of that status; the session's
\* order and the completed orders are what they were, and the turn is over
\* with that one answer.
C23_UpstreamErrorMapped ==
    [][(\A sessionId \in DOMAIN inflight, error \in ModelErrors :
          ChatError(sessionId, error) =>
             /\ lastResp'.op = "chat"
             /\ lastResp'.sid = sessionId
             /\ error.class = "rate_limit" =>
                    /\ lastResp'.status = 429
                    /\ lastResp'.response =
                         "We are experiencing high traffic. Please try again in a moment (rate limit)."
             /\ error.class = "auth" =>
                    /\ lastResp'.status = 401
                    /\ lastResp'.response =
                         "Authentication error with the AI service. Please check your Hugging Face token."
             /\ error.class = "other" =>
                    /\ lastResp'.status = 500
                    /\ lastResp'.response = "An unexpected error occurred. Please try again."
             /\ sessionId \in DOMAIN heap'.so =>
                    OrderJson(heap', heap'.so[sessionId]) = OrderJson(heap, heap.so[sessionId])
             /\ sessions' = sessions
             /\ completedOrders' = completedOrders
             /\ inflight'[sessionId] = inflight[sessionId] - 1)]_vars

\* C23 witness: a turn of a session whose order holds a line has just been
\* answered 429.
C23_Witness ==
    /\ variant = "mem"
    /\ lastResp.op = "chat"
    /\ lastResp.status = 429
    /\ lastResp.sid \in sessions
    /\ Len(heap.arrs[heap.so[lastResp.sid].items]) > 0

\* C24: the response to a failing request is determined by the class of the
\* failure alone: in each server, a step that answers a failure whose error
\* carries one message is also the step that answers the same failure with
\* any other message, and no response carries the message of the error.
C24_NoInternalDetail ==
    [][(/\ \A sessionId \in DOMAIN inflight, e1 \in ModelErrors, e2 \in ModelErrors :
             (e1.class = e2.class /\ ChatError(sessionId, e1)) => ChatError(sessionId, e2)
        /\ \A r \in BagToSet(reqs), m1 \in ErrorMessages, m2 \in ErrorMessages :
             /\ UserModelError(r, m1) => UserModelError(r, m2)
             /\ SessModelError(r, m1) => SessModelError(r, m2)
        /\ variant \in {"user", "sess"} =>
             \A m \in ErrorMessages : lastResp'.details # << m >>
        /\ variant = "mem" =>
             \A error \in ModelErrors, sessionId \in DOMAIN inflight :
                ChatError(sessionId, error) => lastResp'.response # error.message)]_vars

\* C25: a Redis server handles a request (takes one in, answers one or lets
\* one go on) only while the store client is connected: never while it is
\* still unset and never after the connection attempt failed, which ends the
\* process.
C25_NoTrafficWithoutStore ==
    [][(variant \in {"user", "sess"} =>
          /\ (lastResp' # lastResp \/ reqs' # reqs) => redis = "ready"
          /\ RedisConnectFail => redis' = "exited")]_vars

\* The order GET /get-session and POST /chat load for the userId of client d
\* when the store is st.
OrderReturnedTo(st, d) == getUserSession(st, client[d].userId).session.order

\* C26: a server-side session is owned by one conversation: when the server
\* handles the chat turn of one client, the order it returns to every other
\* client (all clients started with no stored userId) stays what it was.
C26_SessionOwnedByOneClient ==
    [][(variant = "app" =>
          \A f \in net, text \in ModelTexts, d \in DOMAIN client :
              (ServerChat(f, text) /\ d # f.c)
                  => OrderReturnedTo(store', d) = OrderReturnedTo(store, d))]_vars

\* C27: over the lifetime of a store, whatever the calls of initializeSession
\* and their interleaving, at most one get-session request is made (stores
\* that clearSession was called on are left aside).
C27_GetSessionAtMostOnce ==
    \A c \in DOMAIN client :
        client[c].cleared.state = "no" => Len(client[c].gets) <= 1

\* The userIds of a sequence of requests.
Requested(gets) == {gets[i] : i \in 1..Len(gets)}

\* C28: when the promise clearSession returned resolves, the store holds the
\* userId the call generated, a get-session request was made for that userId
\* and the message list is the welcome message.
C28_ClearSessionStartsNewSession ==
    [][(variant = "app" =>
          \A c \in DOMAIN client :
              (client'[c].cleared.state = "resolved" /\ client'[c].cleared # client[c].cleared)
                  => /\ client'[c].userId = client'[c].cleared.userId
                     /\ client'[c].cleared.userId \in Requested(client'[c].gets)
                     /\ client'[c].messages = << "welcome" >>)]_vars

\* C30: when initializeSession completes successfully, the store's
\* currentOrder is the order GET /get-session returned for the userId.
C30_ClientShowsServerOrder ==
    [][(variant = "app" =>
          \A f \in net :
              (InitContinue(f) /\ f.phase = "ok" /\ f.data[1].order # Undefined)
                  => client'[f.c].currentOrder = f.data[1].order[1])]_vars

\* The order of session s as a request sees it.
SessionOrder(h, s) == OrderJson(h, h.so[s])

\* The directives of a text that name a menu item, as operations: the adds in
\* textual order, then the removes, then the updates.
OpsOf(text) ==
    LET ops(kw) ==
            LET ms == Resolved(text, kw)
            IN  [i \in 1..Len(ms) |->
                    [kw |-> kw,
                     item |-> findMenuItem(CapturedName(text, kw, ms[i])),
                     quantity |-> IF kw = "ORDER_REMOVE:" THEN 0
                                  ELSE CapturedQuantity(text, ms[i])]]
    IN  ops("ORDER_ADD:") \o ops("ORDER_REMOVE:") \o ops("ORDER_UPDATE:")

\* The operations of each text the model may return.
DirectiveOps == [text \in AIResponses |-> OpsOf(text)]

\* The operations applied to the order of session s, one after the other.
RECURSIVE ApplyOps(_, _, _)
ApplyOps(h, ops, s) ==
    IF ops = << >> THEN h
    ELSE LET op == Head(ops)
             h1 == IF op.kw = "ORDER_ADD:"
                   THEN addItemToOrder(h, MENU[op.item], op.quantity, s)
                   ELSE IF op.kw = "ORDER_REMOVE:"
                        THEN removeItemFromOrder(h, MENU[op.item].id, s)
                   ELSE updateItemInOrder(h, MENU[op.item].id, op.quantity, s)
         IN  ApplyOps(h1, Tail(ops), s)

\* The order of session s once the directives of text have been applied to it
\* as it stands in h.
AfterDirectives(h, text, s) == SessionOrder(ApplyOps(h, DirectiveOps[text], s), s)

\* A chat turn of session s has answered 200 in the step.
Answered(s) ==
    /\ lastResp'.op = "chat" /\ lastResp'.status = 200 /\ lastResp'.sid = s
    /\ inflight'[s] < inflight[s]

\* C29: with chat turns of one session overlapping, the turn whose model call
\* returns applies all its directives, in that one step, to the order as the
\* turns that finished before it (and the PUT requests) left it, and the
\* other turns stay in flight; between such steps the order of a session
\* changes through a PUT only; after every step totalCost is the sum of
\* price*quantity of the lines.
C29_NoLostCartMutation ==
    [][(variant = "mem" =>
          /\ \A s \in DOMAIN inflight :
                 Answered(s) =>
                     \A aiContent \in AIResponses :
                         ChatReply(s, aiContent) =>
                             /\ inflight'[s] = inflight[s] - 1
                             /\ s \in DOMAIN heap'.so =>
                                    SessionOrder(heap', s) = AfterDirectives(heap, aiContent, s)
                             /\ s \in sessions => s \in DOMAIN heap'.so
          /\ \A s \in DOMAIN heap.so \cap DOMAIN heap'.so :
                 SessionOrder(heap', s) # SessionOrder(heap, s) =>
                     \/ Answered(s) /\ \E aiContent \in AIResponses : ChatReply(s, aiContent)
                     \/ \E itemId \in PutItemIds, quantity \in PutQuantities :
                            PutItem(s, itemId, quantity)
          /\ \A s \in DOMAIN heap'.so :
                 heap'.so[s].totalCost = calculateTotal(Deref(heap', heap'.so[s].items)))]_vars

\* C29 witness: a turn has just added a second line to the order another
\* turn had added a line to, while a further turn of the session still awaits
\* the model.
C29_Witness ==
    /\ variant = "mem"
    /\ lastResp.op = "chat" /\ lastResp.status = 200
    /\ lastResp.sid \in sessions
    /\ inflight[lastResp.sid] >= 1
    /\ Len(heap.arrs[heap.so[lastResp.sid].items]) = 2

====
